---------------------------- MODULE Spec2Model ----------------------------
(***************************************************************************)
(* A model of jwtdecode: the claims formatting pipeline (the epoch         *)
(* normalizer, the JSON, CSV and XML renderers in their two                *)
(* implementations) and the run of main that dispatches to it.             *)
(*                                                                         *)
(* Text is modelled as a sequence of one-character strings, so that the    *)
(* code's byte-level tests (first character, sort order, quoting) are      *)
(* computed and not assumed.  64-bit integers are modelled as signed       *)
(* decimal numerals (a sign and a sequence of digits), because the values  *)
(* the code handles (epoch milliseconds, nanosecond products) do not fit   *)
(* the model checker's own integers.                                       *)
(***************************************************************************)
EXTENDS Integers, Sequences, FiniteSets, TLC

(***************************************************************************)
(* Text                                                                    *)
(***************************************************************************)

\* The characters the model uses, in ascending byte (ASCII) order.
Bytes ==
    << "\n", " ", "\"", "#", "&", "'", "+", ",", "-", ".", "/",
       "0", "1", "2", "3", "4", "5", "6", "7", "8", "9",
       ":", ";", "<", "=", ">", "?", "@",
       "A", "B", "C", "D", "E", "F", "G", "H", "I", "J", "K", "L", "M",
       "N", "O", "P", "Q", "R", "S", "T", "U", "V", "W", "X", "Y", "Z",
       "[", "\\", "]", "_",
       "a", "b", "c", "d", "e", "f", "g", "h", "i", "j", "k", "l", "m",
       "n", "o", "p", "q", "r", "s", "t", "u", "v", "w", "x", "y", "z",
       "{", "}" >>

Chars == { Bytes[i] : i \in 1..Len(Bytes) }

\* The rank of a character in byte order.
Ord == [ c \in Chars |-> CHOOSE i \in 1..Len(Bytes) : Bytes[i] = c ]

\* Go's string comparison a < b: byte-wise lexicographic.
RECURSIVE StrLessFrom(_, _, _)
StrLessFrom(a, b, i) ==
    IF i > Len(b) THEN FALSE
    ELSE IF i > Len(a) THEN TRUE
    ELSE IF a[i] # b[i] THEN Ord[a[i]] < Ord[b[i]]
    ELSE StrLessFrom(a, b, i + 1)

StrLess(a, b) == StrLessFrom(a, b, 1)

\* strings.HasSuffix / HasPrefix.
HasPrefix(s, p) == Len(s) >= Len(p) /\ SubSeq(s, 1, Len(p)) = p

\* The concatenation of a sequence of strings.
RECURSIVE Concat(_)
Concat(ss) == IF ss = << >> THEN << >> ELSE Head(ss) \o Concat(Tail(ss))

\* strings.Join.
RECURSIVE Join(_, _)
Join(ss, sep) ==
    IF ss = << >> THEN << >>
    ELSE IF Len(ss) = 1 THEN ss[1]
    ELSE ss[1] \o sep \o Join(Tail(ss), sep)

\* Whether character c occurs in s.
Contains(s, c) == \E i \in 1..Len(s) : s[i] = c

\* strings.Count of a single character.
CountChar(s, c) == Cardinality({ i \in 1..Len(s) : s[i] = c })

\* F(e), with e evaluated once.
With(e, F(_)) == CHOOSE y \in { F(x) : x \in { e } } : TRUE

(***************************************************************************)
(* Decimal numerals: magnitudes are sequences of digits, most significant  *)
(* first, without leading zeros (zero is <<0>>).                           *)
(***************************************************************************)

DigitChars == << "0", "1", "2", "3", "4", "5", "6", "7", "8", "9" >>

RECURSIVE StripZeros(_)
StripZeros(ds) ==
    IF Len(ds) > 1 /\ ds[1] = 0 THEN StripZeros(Tail(ds)) ELSE ds

\* The digits of a natural number that fits the checker's integers.
RECURSIVE NatDigits(_)
NatDigits(n) ==
    IF n < 10 THEN << n >> ELSE Append(NatDigits(n \div 10), n % 10)

\* The value of a magnitude of at most nine digits.
RECURSIVE MagInt(_)
MagInt(ds) ==
    IF ds = << >> THEN 0 ELSE MagInt(SubSeq(ds, 1, Len(ds) - 1)) * 10 + ds[Len(ds)]

\* -1, 0 or 1 as a < b, a = b, a > b.
RECURSIVE CmpFrom(_, _, _)
CmpFrom(a, b, i) ==
    IF i > Len(a) THEN 0
    ELSE IF a[i] < b[i] THEN -1
    ELSE IF a[i] > b[i] THEN 1
    ELSE CmpFrom(a, b, i + 1)

CmpMag(a, b) ==
    IF Len(a) < Len(b) THEN -1
    ELSE IF Len(a) > Len(b) THEN 1
    ELSE CmpFrom(a, b, 1)

PadTo(ds, n) == [ i \in 1..n |-> IF i > n - Len(ds) THEN ds[i - (n - Len(ds))] ELSE 0 ]

\* a + b on magnitudes.
AddMag(a, b) ==
    LET n  == (IF Len(a) > Len(b) THEN Len(a) ELSE Len(b)) + 1
        x  == PadTo(a, n)
        y  == PadTo(b, n)
        carry[i \in 1..(n + 1)] ==
            IF i = n + 1 THEN 0 ELSE (x[i] + y[i] + carry[i + 1]) \div 10
    IN  StripZeros([ i \in 1..n |-> (x[i] + y[i] + carry[i + 1]) % 10 ])

\* a - b on magnitudes, for a >= b.
SubMag(a, b) ==
    LET n  == Len(a)
        y  == PadTo(b, n)
        borrow[i \in 1..(n + 1)] ==
            IF i = n + 1 THEN 0
            ELSE IF a[i] - y[i] - borrow[i + 1] < 0 THEN 1 ELSE 0
    IN  StripZeros([ i \in 1..n |-> (a[i] - y[i] - borrow[i + 1] + 10) % 10 ])

\* a * 10^k on magnitudes.
ShiftMag(a, k) == IF a = << 0 >> THEN a ELSE a \o [ i \in 1..k |-> 0 ]

\* The remainder of a by m (long division, one digit of a at a time).  The
\* test on the accumulator only makes it evaluated at every step.
RECURSIVE ReduceBelow(_, _)
ReduceBelow(r, m) == IF CmpMag(r, m) < 0 THEN r ELSE ReduceBelow(SubMag(r, m), m)

RECURSIVE ModMagFrom(_, _, _, _)
ModMagFrom(a, m, i, r) ==
    IF i > Len(a) \/ Len(r) = 0 THEN r
    ELSE ModMagFrom(a, m, i + 1, ReduceBelow(StripZeros(Append(r, a[i])), m))

ModMag(a, m) == ModMagFrom(a, m, 1, << 0 >>)

\* Quotient and remainder of a magnitude by a small divisor k.
RECURSIVE DivSmallFrom(_, _, _, _, _)
DivSmallFrom(a, k, i, q, r) ==
    IF i > Len(a) \/ Len(q) = 0 THEN [ q |-> StripZeros(q), r |-> r ]
    ELSE LET cur == r * 10 + a[i]
         IN  DivSmallFrom(a, k, i + 1, Append(q, cur \div k), cur % k)

DivSmall(a, k) == DivSmallFrom(a, k, 1, << 0 >>, 0)

(***************************************************************************)
(* int64: a record [neg, mag]; zero is never negative.                     *)
(***************************************************************************)

I64(neg, mag) == [ neg |-> neg /\ mag # << 0 >>, mag |-> mag ]

\* 2^63 and 2^64.
Two63 == << 9,2,2,3,3,7,2,0,3,6,8,5,4,7,7,5,8,0,8 >>
Two64 == << 1,8,4,4,6,7,4,4,0,7,3,7,0,9,5,5,1,6,1,6 >>

\* The 64-bit two's-complement value of the mathematical integer x.
Wrap64(x) ==
    LET r0 == ModMag(x.mag, Two64)
        r  == IF x.neg /\ r0 # << 0 >> THEN SubMag(Two64, r0) ELSE r0
    IN  IF CmpMag(r, Two63) >= 0 THEN I64(TRUE, SubMag(Two64, r)) ELSE I64(FALSE, r)

\* x * 10^k in int64 arithmetic (wrapping).
MulPow10(x, k) == Wrap64(I64(x.neg, ShiftMag(x.mag, k)))

\* x > y on int64.
Gt64(x, y) ==
    IF x.neg # y.neg THEN y.neg
    ELSE IF x.neg THEN CmpMag(x.mag, y.mag) < 0
    ELSE CmpMag(x.mag, y.mag) > 0

(***************************************************************************)
(* Letters                                                                 *)
(***************************************************************************)

UpperLetters == << "A", "B", "C", "D", "E", "F", "G", "H", "I", "J", "K", "L", "M",
                   "N", "O", "P", "Q", "R", "S", "T", "U", "V", "W", "X", "Y", "Z" >>
LowerLetters == << "a", "b", "c", "d", "e", "f", "g", "h", "i", "j", "k", "l", "m",
                   "n", "o", "p", "q", "r", "s", "t", "u", "v", "w", "x", "y", "z" >>

LowerChar(c) ==
    IF \E i \in 1..26 : UpperLetters[i] = c
    THEN LowerLetters[CHOOSE i \in 1..26 : UpperLetters[i] = c] ELSE c

UpperChar(c) ==
    IF \E i \in 1..26 : LowerLetters[i] = c
    THEN UpperLetters[CHOOSE i \in 1..26 : LowerLetters[i] = c] ELSE c

\* strings.ToLower and strings.ToUpper.
ToLower(s) == [ i \in 1..Len(s) |-> LowerChar(s[i]) ]
ToUpper(s) == [ i \in 1..Len(s) |-> UpperChar(s[i]) ]

\* The decimal text of a magnitude, and of a natural number padded with
\* zeros to a width of at least w (time's appendInt).
MagText(ds) == [ i \in 1..Len(ds) |-> DigitChars[ds[i] + 1] ]

PadInt(n, w) ==
    LET ds == NatDigits(n)
    IN  [ i \in 1..(IF w > Len(ds) THEN w - Len(ds) ELSE 0) |-> "0" ] \o MagText(ds)

(***************************************************************************)
(* time.Unix and Time.UTC().Format("2006-01-02 15:04:05 UTC")              *)
(***************************************************************************)

\* The seconds field of time.Unix(0, nsec): nsec / 1e9 truncated, less one
\* when the remainder is negative.
UnixNanoSec(nsec) ==
    LET n   == Len(nsec.mag)
        q   == IF n > 9 THEN SubSeq(nsec.mag, 1, n - 9) ELSE << 0 >>
        rem == StripZeros(IF n > 9 THEN SubSeq(nsec.mag, n - 8, n) ELSE nsec.mag)
    IN  IF nsec.neg /\ rem # << 0 >> THEN I64(TRUE, AddMag(q, << 1 >>))
        ELSE I64(nsec.neg, q)

\* The civil date of a day number counted from 1970-01-01 (proleptic
\* Gregorian calendar, as package time computes it).
CivilFromDays(days) ==
    LET z   == days + 719468
        era == z \div 146097
        doe == z - era * 146097
        yoe == (doe - doe \div 1460 + doe \div 36524 - doe \div 146096) \div 365
        doy == doe - (365 * yoe + yoe \div 4 - yoe \div 100)
        mp  == (5 * doy + 2) \div 153
        d   == doy - (153 * mp + 2) \div 5 + 1
        m   == IF mp < 10 THEN mp + 3 ELSE mp - 9
        y   == yoe + era * 400 + (IF m <= 2 THEN 1 ELSE 0)
    IN  [ year |-> y, month |-> m, day |-> d ]

\* tm.UTC().Format("2006-01-02 15:04:05 UTC") for tm = time.Unix(sec, 0).
FormatUTC(sec) ==
    LET dv   == DivSmall(sec.mag, 86400)
        q    == MagInt(dv.q)
        days == IF sec.neg THEN (IF dv.r # 0 THEN -(q + 1) ELSE -q) ELSE q
        sod  == IF sec.neg /\ dv.r # 0 THEN 86400 - dv.r ELSE dv.r
        c    == CivilFromDays(days)
        yr   == IF c.year < 0 THEN << "-" >> \o PadInt(-c.year, 4) ELSE PadInt(c.year, 4)
    IN  yr \o << "-" >> \o PadInt(c.month, 2) \o << "-" >> \o PadInt(c.day, 2)
           \o << " " >> \o PadInt(sod \div 3600, 2) \o << ":" >>
           \o PadInt((sod % 3600) \div 60, 2) \o << ":" >> \o PadInt(sod % 60, 2)
           \o << " ", "U", "T", "C" >>

(***************************************************************************)
(* Claim values.  A decoded claim value is one of                          *)
(*   string, float64, json.Number, bool, nil, map[string]interface{} and   *)
(*   []interface{};                                                        *)
(* a map is a function from keys to values.  The float64 values of the     *)
(* model are the integer-valued ones (field n holds the integer).          *)
(***************************************************************************)

VString(s)  == [ t |-> "string", s |-> s ]
VFloat(x)   == [ t |-> "float64", n |-> x ]
VNumber(s)  == [ t |-> "json.Number", j |-> s ]
VBool(b)    == [ t |-> "bool", b |-> b ]
VNil        == [ t |-> "nil" ]
VMap(m)     == [ t |-> "map", m |-> m ]
VSlice(a)   == [ t |-> "slice", a |-> a ]

EmptyMap == [ k \in {} |-> VNil ]

\* The map m with m[k] = v (a Go map assignment).
MapPut(m, k, v) ==
    With(m, LAMBDA old :
      With(v, LAMBDA new : [ x \in DOMAIN old \cup { k } |-> IF x = k THEN new ELSE old[x] ]))

(***************************************************************************)
(* sort.Strings                                                            *)
(***************************************************************************)

RECURSIVE InsertSorted(_, _)
InsertSorted(sorted, x) ==
    IF sorted = << >> THEN << x >>
    ELSE IF StrLess(x, Head(sorted)) THEN << x >> \o sorted
    ELSE << Head(sorted) >> \o InsertSorted(Tail(sorted), x)

\* The strings left in the order they were collected in.
unsorted(ss) == ss

RECURSIVE SortStrings(_)
SortStrings(ss) ==
    IF ss = << >> THEN << >>
    ELSE InsertSorted(SortStrings(SubSeq(ss, 1, Len(ss) - 1)), ss[Len(ss)])

\* The elements of a set of strings, in some order.
RECURSIVE SetToSeq(_)
SetToSeq(S) ==
    IF S = {} THEN << >>
    ELSE LET x == CHOOSE y \in S : TRUE IN << x >> \o SetToSeq(S \ { x })

\* The keys of a map in ascending order (what encoding/json and fmt use).
SortedKeys(m) == SortStrings(SetToSeq(DOMAIN m))

\* The orders in which a range loop may visit the keys of a map: Go leaves
\* the order unspecified.  Every permutation for a map of up to two keys;
\* for a larger map the rotations of the ascending order and the descending
\* order.
KeyOrders(S) ==
    { o \in [ 1..Cardinality(S) -> S ] : \A i, j \in DOMAIN o : i # j => o[i] # o[j] }

Rotate(q, r) == [ i \in 1..Len(q) |-> q[((i + r - 1) % Len(q)) + 1] ]

Reverse(q) == [ i \in 1..Len(q) |-> q[Len(q) + 1 - i] ]

IterationOrders(m) ==
    IF Cardinality(DOMAIN m) <= 2 THEN KeyOrders(DOMAIN m)
    ELSE LET asc == SortedKeys(m)
         IN  { Rotate(asc, r) : r \in 0..(Len(asc) - 1) } \cup { Reverse(asc) }

(***************************************************************************)
(* fmt.Sprintf("%v", value)                                                *)
(***************************************************************************)

RECURSIVE TrimTrailingZeros(_)
TrimTrailingZeros(ds) ==
    IF Len(ds) > 1 /\ ds[Len(ds)] = 0
    THEN TrimTrailingZeros(SubSeq(ds, 1, Len(ds) - 1)) ELSE ds

\* strconv.FormatFloat(f, 'g', -1, 64) for an integer-valued f: the shortest
\* digits, in %e form when the decimal exponent is 6 or more.
FormatFloatG(x) ==
    LET digs == TrimTrailingZeros(x.mag)
        exp  == Len(x.mag) - 1
        sign == IF x.neg THEN << "-" >> ELSE << >>
    IN  IF exp >= 6
        THEN sign \o << DigitChars[digs[1] + 1] >>
                  \o (IF Len(digs) > 1 THEN << "." >> \o MagText(Tail(digs)) ELSE << >>)
                  \o << "e", "+" >> \o PadInt(exp, 2)
        ELSE sign \o MagText(x.mag)

RECURSIVE Sprintf(_)
RECURSIVE SprintfEntries(_, _)
RECURSIVE SprintfItems(_)

SprintfEntries(m, keys) ==
    IF keys = << >> THEN << >>
    ELSE << Head(keys) \o << ":" >> \o Sprintf(m[Head(keys)]) >>
            \o SprintfEntries(m, Tail(keys))

SprintfItems(a) ==
    IF a = << >> THEN << >> ELSE << Sprintf(Head(a)) >> \o SprintfItems(Tail(a))

Sprintf(v) ==
    CASE v.t = "string"      -> v.s
      [] v.t = "float64"     -> FormatFloatG(v.n)
      [] v.t = "json.Number" -> v.j
      [] v.t = "bool"        -> IF v.b THEN << "t", "r", "u", "e" >>
                                       ELSE << "f", "a", "l", "s", "e" >>
      [] v.t = "nil"         -> << "<", "n", "i", "l", ">" >>
      [] v.t = "map"         -> << "m", "a", "p", "[" >>
                                   \o Join(SprintfEntries(v.m, SortedKeys(v.m)), << " " >>)
                                   \o << "]" >>
      [] v.t = "slice"       -> << "[" >> \o Join(SprintfItems(v.a), << " " >>) \o << "]" >>

(***************************************************************************)
(* encoding/json: Marshal and MarshalIndent(v, "", "  ")                   *)
(***************************************************************************)

\* One character of a JSON string literal (HTML-safe escaping is on).
JSONChar(c) ==
    CASE c = "\"" -> << "\\", "\"" >>
      [] c = "\\" -> << "\\", "\\" >>
      [] c = "\n" -> << "\\", "n" >>
      [] c = "<"  -> << "\\", "u", "0", "0", "3", "c" >>
      [] c = ">"  -> << "\\", "u", "0", "0", "3", "e" >>
      [] c = "&"  -> << "\\", "u", "0", "0", "2", "6" >>
      [] OTHER    -> << c >>

JSONString(s) ==
    << "\"" >> \o Concat([ i \in 1..Len(s) |-> JSONChar(s[i]) ]) \o << "\"" >>

\* A line break followed by the indentation of the given depth; nothing in
\* compact form.
JSONBreak(indent, depth) ==
    IF indent THEN << "\n" >> \o [ i \in 1..(2 * depth) |-> " " ] ELSE << >>

RECURSIVE JSONValue(_, _, _)
RECURSIVE JSONMembers(_, _, _, _)
RECURSIVE JSONElements(_, _, _)

JSONMembers(m, keys, indent, depth) ==
    IF keys = << >> THEN << >>
    ELSE << JSONBreak(indent, depth) \o JSONString(Head(keys)) \o << ":" >>
               \o (IF indent THEN << " " >> ELSE << >>)
               \o JSONValue(m[Head(keys)], indent, depth) >>
            \o JSONMembers(m, Tail(keys), indent, depth)

JSONElements(a, indent, depth) ==
    IF a = << >> THEN << >>
    ELSE << JSONBreak(indent, depth) \o JSONValue(Head(a), indent, depth) >>
            \o JSONElements(Tail(a), indent, depth)

JSONValue(v, indent, depth) ==
    CASE v.t = "string"      -> JSONString(v.s)
      [] v.t = "float64"     -> (IF v.n.neg THEN << "-" >> ELSE << >>) \o MagText(v.n.mag)
      [] v.t = "json.Number" -> v.j
      [] v.t = "bool"        -> IF v.b THEN << "t", "r", "u", "e" >>
                                       ELSE << "f", "a", "l", "s", "e" >>
      [] v.t = "nil"         -> << "n", "u", "l", "l" >>
      [] v.t = "map"         ->
            IF DOMAIN v.m = {} THEN << "{", "}" >>
            ELSE << "{" >>
                   \o Join(JSONMembers(v.m, SortedKeys(v.m), indent, depth + 1), << "," >>)
                   \o JSONBreak(indent, depth) \o << "}" >>
      [] v.t = "slice"       ->
            IF v.a = << >> THEN << "[", "]" >>
            ELSE << "[" >>
                   \o Join(JSONElements(v.a, indent, depth + 1), << "," >>)
                   \o JSONBreak(indent, depth) \o << "]" >>

\* json.Marshal(v) and json.MarshalIndent(v, "", "  ").
jsonMarshal(v)       == JSONValue(v, FALSE, 0)
jsonMarshalIndent(v) == JSONValue(v, TRUE, 0)

(***************************************************************************)
(* encoding/csv: Writer.Write with the default comma and line ending       *)
(***************************************************************************)

\* A writer that never quotes a field.
neverQuoted(field) == FALSE

\* Writer.fieldNeedsQuotes.
fieldNeedsQuotes(field) ==
    IF field = << >> THEN FALSE
    ELSE IF field = << "\\", "." >> THEN TRUE
    ELSE IF \E i \in 1..Len(field) : field[i] \in { ",", "\"", "\n" } THEN TRUE
    ELSE field[1] \in { " ", "\n" }

\* One field as the writer emits it: quoted, with inner quotes doubled, when it
\* needs quotes.
csvField(field) ==
    IF ~fieldNeedsQuotes(field) THEN field
    ELSE << "\"" >>
            \o Concat([ i \in 1..Len(field) |->
                          IF field[i] = "\"" THEN << "\"", "\"" >> ELSE << field[i] >> ])
            \o << "\"" >>

\* The bytes of one record.
csvWrite(record) ==
    Join([ i \in 1..Len(record) |-> csvField(record[i]) ], << "," >>) \o << "\n" >>

(***************************************************************************)
(* encoding/xml: MarshalIndent(root, "", "  ") of an XMLNode                *)
(*   XMLNode{XMLName, Attrs `xml:"-"`, Content `xml:",chardata"`,          *)
(*           Nodes `xml:",any"`}                                           *)
(***************************************************************************)

XMLNode(name, attrs, content, nodes) ==
    [ name |-> name, attrs |-> attrs, content |-> content, nodes |-> nodes ]

\* xml.EscapeText of one character.
XMLChar(c) ==
    CASE c = "\"" -> << "&", "#", "3", "4", ";" >>
      [] c = "'"  -> << "&", "#", "3", "9", ";" >>
      [] c = "&"  -> << "&", "a", "m", "p", ";" >>
      [] c = "<"  -> << "&", "l", "t", ";" >>
      [] c = ">"  -> << "&", "g", "t", ";" >>
      [] c = "\n" -> << "&", "#", "x", "A", ";" >>
      [] OTHER    -> << c >>

EscapeText(s) == Concat([ i \in 1..Len(s) |-> XMLChar(s[i]) ])

XMLIndent(depth) == [ i \in 1..(2 * depth) |-> " " ]

\* The element of a node at the given depth.  A field tagged "-" is not
\* marshalled: the start tag carries no attribute.
RECURSIVE XMLElement(_, _)
RECURSIVE XMLChildren(_, _)

XMLChildren(nodes, depth) ==
    IF nodes = << >> THEN << >>
    ELSE << "\n" >> \o XMLElement(Head(nodes), depth) \o XMLChildren(Tail(nodes), depth)

XMLElement(node, depth) ==
    XMLIndent(depth) \o << "<" >> \o node.name \o << ">" >>
        \o EscapeText(node.content)
        \o (IF node.nodes = << >> THEN << >>
            ELSE XMLChildren(node.nodes, depth + 1) \o << "\n" >> \o XMLIndent(depth))
        \o << "<", "/" >> \o node.name \o << ">" >>

\* xml.Header.
xmlHeader ==
    << "<", "?", "x", "m", "l", " ", "v", "e", "r", "s", "i", "o", "n", "=", "\"",
       "1", ".", "0", "\"", " ", "e", "n", "c", "o", "d", "i", "n", "g", "=", "\"",
       "U", "T", "F", "-", "8", "\"", "?", ">", "\n" >>

xmlMarshalIndent(root) == XMLElement(root, 0)

(***************************************************************************)
(* The epoch normalizer                                                    *)
(***************************************************************************)

ClaimIAT      == << "i", "a", "t" >>
ClaimEXP      == << "e", "x", "p" >>
ClaimNBF      == << "n", "b", "f" >>
ClaimAuthTime == << "a", "u", "t", "h", "_", "t", "i", "m", "e" >>

DatestampSuffix == << "_", "d", "a", "t", "e", "s", "t", "a", "m", "p" >>

\* strconv.ParseInt(s, 10, 64), which json.Number.Int64 calls.
ParseInt64(s) ==
    LET signed == Len(s) > 0 /\ s[1] \in { "+", "-" }
        body   == IF signed THEN Tail(s) ELSE s
        isNum  == Len(body) > 0
                    /\ \A i \in 1..Len(body) : \E d \in 1..10 : DigitChars[d] = body[i]
        mag    == StripZeros([ i \in 1..Len(body) |->
                                 (CHOOSE d \in 1..10 : DigitChars[d] = body[i]) - 1 ])
        neg    == signed /\ s[1] = "-"
    IN  IF ~isNum THEN [ ok |-> FALSE ]
        ELSE IF CmpMag(mag, Two63) > 0 \/ (~neg /\ CmpMag(mag, Two63) = 0)
             THEN [ ok |-> FALSE ]
             ELSE [ ok |-> TRUE, v |-> I64(neg, mag) ]

\* The type switch on the claim value: its int64 timestamp, when it has one.
EpochTimestamp(value) ==
    CASE value.t = "float64"     -> [ ok |-> TRUE, v |-> value.n ]
      [] value.t = "json.Number" -> ParseInt64(value.j)
      [] OTHER                   -> [ ok |-> FALSE ]

\* The switch on strings.ToLower(epochUnit): the seconds since the epoch of
\* the time.Time built from the timestamp; threshold is the heuristic's.
EpochSeconds(timestamp, epochUnit, threshold) ==
    LET unit == ToLower(epochUnit)
    IN  CASE unit \in { << "s" >>, << "s", "e", "c", "o", "n", "d", "s" >> } ->
                timestamp
          [] unit \in { << "m", "s" >>,
                        << "m", "i", "l", "l", "i", "s", "e", "c", "o", "n", "d", "s" >> } ->
                UnixNanoSec(MulPow10(timestamp, 6))
          [] unit \in { << "u", "s" >>,
                        << "m", "i", "c", "r", "o", "s", "e", "c", "o", "n", "d", "s" >> } ->
                UnixNanoSec(MulPow10(timestamp, 3))
          [] unit \in { << "n", "s" >>,
                        << "n", "a", "n", "o", "s", "e", "c", "o", "n", "d", "s" >> } ->
                UnixNanoSec(timestamp)
          [] OTHER ->
                IF Gt64(timestamp, I64(FALSE, threshold))
                THEN UnixNanoSec(MulPow10(timestamp, 6))
                ELSE timestamp

\* The heuristic thresholds 1e11 (formatter.go) and 1e10 (the three-argument
\* renderers).
Threshold1e11 == << 1, 0, 0, 0, 0, 0, 0, 0, 0, 0, 0, 0 >>
Threshold1e10 == << 1, 0, 0, 0, 0, 0, 0, 0, 0, 0, 0 >>

NoDatestamp == [ ok |-> FALSE, s |-> << >> ]

\* formatter.go: convertEpochToHumanReadable(key, value, epochUnit).
convertEpochToHumanReadable(key, value, epochUnit) ==
    IF key \notin { ClaimIAT, ClaimEXP, ClaimNBF, ClaimAuthTime } THEN NoDatestamp
    ELSE LET ts == EpochTimestamp(value)
         IN  IF ~ts.ok THEN NoDatestamp
             ELSE [ ok |-> TRUE,
                    s  |-> FormatUTC(EpochSeconds(ts.v, epochUnit, Threshold1e11)) ]

\* The three-argument renderers' convertEpochToHumanReadable.
convertEpochToHumanReadable_p2(key, value, epochUnit) ==
    IF key \in { ClaimIAT, ClaimEXP, ClaimNBF, ClaimAuthTime }
    THEN LET ts == EpochTimestamp(value)
         IN  IF ~ts.ok THEN NoDatestamp
             ELSE [ ok |-> TRUE,
                    s  |-> FormatUTC(EpochSeconds(ts.v, epochUnit, Threshold1e10)) ]
    ELSE NoDatestamp

(***************************************************************************)
(* Map iteration.  An oracle o says in which order each range loop of one  *)
(* call visits its map: o.top for the map the call is given, and for each  *)
(* nested map the ascending or (o.rev) the descending order of its keys.   *)
(***************************************************************************)

Oracles(m) == [ top : IterationOrders(m), rev : BOOLEAN ]

NestedOrder(m, o) == IF o.rev THEN Reverse(SortedKeys(m)) ELSE SortedKeys(m)

(***************************************************************************)
(* formatter.go                                                            *)
(***************************************************************************)

\* The loop of PreprocessClaims over the keys in iteration order.
RECURSIVE PreprocessLoop(_, _, _, _)
PreprocessLoop(claims, epochUnit, order, processed) ==
    IF order = << >> \/ DOMAIN processed = { << >> } THEN processed
    ELSE LET key   == Head(order)
             value == claims[key]
             p1    == MapPut(processed, key, value)
         IN  With(convertEpochToHumanReadable(key, value, epochUnit),
                  LAMBDA ds :
                     PreprocessLoop(claims, epochUnit, Tail(order),
                                    IF ds.ok
                                    THEN MapPut(p1, key \o DatestampSuffix, VString(ds.s))
                                    ELSE p1))

\* PreprocessClaims writing the companions into the map it is given.
PreprocessClaimsInPlace(claims, convertEpoch, epochUnit, order) ==
    IF ~convertEpoch
    THEN [ ret |-> claims, fresh |-> FALSE, claims |-> claims ]
    ELSE LET m == PreprocessLoop(claims, epochUnit, order, claims)
         IN  [ ret |-> m, fresh |-> FALSE, claims |-> m ]

\* PreprocessClaims(claims, convertEpoch, epochUnit): the map returned (ret),
\* whether it is a map made by the call (fresh), and the caller's map after
\* the call (claims).
PreprocessClaims(claims, convertEpoch, epochUnit, order) ==
    IF ~convertEpoch
    THEN [ ret |-> claims, fresh |-> FALSE, claims |-> claims ]
    ELSE [ ret    |-> PreprocessLoop(claims, epochUnit, order, EmptyMap),
           fresh  |-> TRUE,
           claims |-> claims ]

\* FormatJSON(claims).
FormatJSON(claims) ==
    [ out |-> jsonMarshalIndent(VMap(claims)), claims |-> claims ]

\* flattenClaimsForCSV(claims): nested maps and slices become their JSON text.
RECURSIVE flattenClaimsForCSVLoop(_, _, _)
flattenClaimsForCSVLoop(claims, order, flattened) ==
    IF order = << >> \/ DOMAIN flattened = { << >> } THEN flattened
    ELSE LET key   == Head(order)
             value == claims[key]
         IN  flattenClaimsForCSVLoop(claims, Tail(order),
                MapPut(flattened, key,
                       IF value.t \in { "map", "slice" }
                       THEN VString(jsonMarshal(value)) ELSE value))

flattenClaimsForCSV(claims, order) == flattenClaimsForCSVLoop(claims, order, EmptyMap)

\* escapeCSVValue(value).
escapeCSVValue(value) ==
    IF Len(value) > 0 /\ (value[1] = "=" \/ value[1] = "+" \/ value[1] = "-" \/ value[1] = "@")
    THEN << "'" >> \o value
    ELSE value

\* The part of FormatCSV after flattening: the header keys collected in the
\* iteration order horder and sorted, the data row, and the writer's bytes.
csvRow(flattened, headers) ==
    [ i \in 1..Len(headers) |-> escapeCSVValue(Sprintf(flattened[headers[i]])) ]

csvRender(flattened, horder) ==
    With(flattened, LAMBDA f :
      With(SortStrings(horder), LAMBDA headers :
        With(csvRow(f, headers), LAMBDA row :
          [ headers |-> headers, row |-> row,
            out |-> csvWrite(headers) \o csvWrite(row) ])))

\* FormatCSV(claims).
FormatCSV(claims, order, horder) ==
    With(csvRender(flattenClaimsForCSV(claims, order), horder),
         LAMBDA r : [ headers |-> r.headers, row |-> r.row, out |-> r.out,
                      claims |-> claims ])

\* mapClaimsToXMLNodes(claims): the keys are sorted; an array item is
\* rendered with %v whatever its type.
ItemName(i) == << "i", "t", "e", "m", "_" >> \o MagText(NatDigits(i))

RECURSIVE mapClaimsToXMLNodes(_, _, _)
RECURSIVE mapClaimsToXMLNodesLoop(_, _, _)

mapClaimsToXMLNodesLoop(claims, keys, o) ==
    IF keys = << >> THEN << >>
    ELSE LET key   == Head(keys)
             value == claims[key]
             node  ==
                CASE value.t = "map" ->
                        XMLNode(key, << >>, << >>,
                                mapClaimsToXMLNodes(value.m, NestedOrder(value.m, o), o))
                  [] value.t = "slice" ->
                        XMLNode(key, << >>, << >>,
                                [ i \in 1..Len(value.a) |->
                                    XMLNode(ItemName(i), << >>, Sprintf(value.a[i]), << >>) ])
                  [] OTHER ->
                        XMLNode(key, << >>, Sprintf(value), << >>)
         IN  << node >> \o mapClaimsToXMLNodesLoop(claims, Tail(keys), o)

mapClaimsToXMLNodes(claims, order, o) ==
    mapClaimsToXMLNodesLoop(claims, SortStrings(order), o)

RootName == << "J", "W", "T", "C", "l", "a", "i", "m", "s" >>

\* FormatXML(claims).
FormatXML(claims, o) ==
    With(XMLNode(RootName, << >>, << >>, mapClaimsToXMLNodes(claims, o.top, o)),
         LAMBDA root : [ nodes |-> root.nodes, out |-> xmlHeader \o xmlMarshalIndent(root),
                         claims |-> claims ])

(***************************************************************************)
(* The three-argument renderers (the ones main calls)                      *)
(***************************************************************************)

\* The loop of FormatJSON over the keys in iteration order.
RECURSIVE extendedClaimsLoop(_, _, _, _, _)
extendedClaimsLoop(claims, convertEpoch, epochUnit, order, extended) ==
    IF order = << >> \/ DOMAIN extended = { << >> } THEN extended
    ELSE LET key   == Head(order)
             value == claims[key]
             e1    == MapPut(extended, key, value)
         IN  With(IF convertEpoch
                  THEN convertEpochToHumanReadable_p2(key, value, epochUnit)
                  ELSE NoDatestamp,
                  LAMBDA ds :
                     extendedClaimsLoop(claims, convertEpoch, epochUnit, Tail(order),
                                        IF ds.ok
                                        THEN MapPut(e1, key \o DatestampSuffix, VString(ds.s))
                                        ELSE e1))

\* FormatJSON(claims, convertEpoch, epochUnit).
FormatJSON_p2(claims, convertEpoch, epochUnit, order) ==
    With(extendedClaimsLoop(claims, convertEpoch, epochUnit, order, EmptyMap),
         LAMBDA extendedClaims :
            [ extended |-> extendedClaims,
              out |-> jsonMarshalIndent(VMap(extendedClaims)), claims |-> claims ])

\* flattenClaims(claims, prefix, convertEpoch, epochUnit).
RECURSIVE flattenClaimsLoop(_, _, _, _, _, _)
flattenClaimsLoop(claims, prefix, convertEpoch, epochUnit, order, flattened) ==
    IF order = << >> \/ DOMAIN flattened = { << >> } THEN flattened
    ELSE LET key    == Head(order)
             value  == claims[key]
             newKey == IF prefix # << >> THEN prefix \o << "." >> \o key ELSE key
             f1     == MapPut(flattened, newKey,
                              IF value.t \in { "map", "slice" }
                              THEN VString(jsonMarshal(value)) ELSE value)
         IN  With(IF convertEpoch
                  THEN convertEpochToHumanReadable_p2(key, value, epochUnit)
                  ELSE NoDatestamp,
                  LAMBDA ds :
                     flattenClaimsLoop(claims, prefix, convertEpoch, epochUnit, Tail(order),
                                       IF ds.ok
                                       THEN MapPut(f1, newKey \o DatestampSuffix,
                                                   VString(ds.s))
                                       ELSE f1))

flattenClaims(claims, prefix, convertEpoch, epochUnit, order) ==
    flattenClaimsLoop(claims, prefix, convertEpoch, epochUnit, order, EmptyMap)

\* The value handed on as it is.
unescaped(value) == value

\* escapeCSVValue(value), the three-argument renderers' copy.
escapeCSVValue_p2(value) ==
    IF Len(value) > 0 /\ (value[1] = "=" \/ value[1] = "+" \/ value[1] = "-" \/ value[1] = "@")
    THEN << "'" >> \o value
    ELSE value

csvRow_p2(flattened, headers) ==
    [ i \in 1..Len(headers) |-> escapeCSVValue_p2(Sprintf(flattened[headers[i]])) ]

csvRender_p2(flattened, horder) ==
    With(flattened, LAMBDA f :
      With(SortStrings(horder), LAMBDA headers :
        With(csvRow_p2(f, headers), LAMBDA row :
          [ headers |-> headers, row |-> row,
            out |-> csvWrite(headers) \o csvWrite(row) ])))

\* FormatCSV(claims, convertEpoch, epochUnit).
FormatCSV_p2(claims, convertEpoch, epochUnit, order, horder) ==
    With(csvRender_p2(flattenClaims(claims, << >>, convertEpoch, epochUnit, order), horder),
         LAMBDA r : [ headers |-> r.headers, row |-> r.row, out |-> r.out,
                      claims |-> claims ])

\* mapClaimsToXMLNode(claims, convertEpoch, epochUnit): the nodes follow the
\* iteration order; a converted timestamp keeps its datestamp in Attrs.
ItemTag == << "i", "t", "e", "m" >>

DatestampAttr == << "d", "a", "t", "e", "s", "t", "a", "m", "p" >>

RECURSIVE mapClaimsToXMLNode(_, _, _, _, _)
mapClaimsToXMLNode(claims, convertEpoch, epochUnit, order, o) ==
    IF order = << >> THEN << >>
    ELSE LET key   == Head(order)
             value == claims[key]
             ds    == IF convertEpoch
                      THEN convertEpochToHumanReadable_p2(key, value, epochUnit)
                      ELSE NoDatestamp
             node  ==
                IF ds.ok
                THEN XMLNode(key, << [ name |-> DatestampAttr, value |-> ds.s ] >>,
                             Sprintf(value), << >>)
                ELSE CASE value.t = "map" ->
                            XMLNode(key, << >>, << >>,
                                    mapClaimsToXMLNode(value.m, convertEpoch, epochUnit,
                                                       NestedOrder(value.m, o), o))
                       [] value.t = "slice" ->
                            XMLNode(key, << >>, << >>,
                                    [ i \in 1..Len(value.a) |->
                                        XMLNode(ItemTag, << >>, Sprintf(value.a[i]), << >>) ])
                       [] OTHER ->
                            XMLNode(key, << >>, Sprintf(value), << >>)
         IN  << node >> \o mapClaimsToXMLNode(claims, convertEpoch, epochUnit, Tail(order), o)

\* FormatXML(claims, convertEpoch, epochUnit).
FormatXML_p2(claims, convertEpoch, epochUnit, o) ==
    With(XMLNode(RootName, << >>, << >>,
                 mapClaimsToXMLNode(claims, convertEpoch, epochUnit, o.top, o)),
         LAMBDA root : [ nodes |-> root.nodes, out |-> xmlHeader \o xmlMarshalIndent(root),
                         claims |-> claims ])

(***************************************************************************)
(* State                                                                   *)
(***************************************************************************)

VARIABLES
    claims,        \* the caller's claim map (after decoding)
    convertEpoch,  \* the convertEpoch argument of the formatter calls
    epochUnit,     \* the epochUnit argument of the formatter calls
    processed,     \* what PreprocessClaims returned to the caller, once called
    last,          \* the last formatter call and what it produced
    pc,            \* main: the step the run is at
    flags,         \* main: the command line and its environment
    config,        \* main: the AppConfig of the run
    stdout,        \* main: the messages printed so far
    exitErr,       \* main: the error the run ended with, or "none"
    outputData,    \* main: the rendered bytes
    written        \* main: the calls of WriteOutput so far

fmtVars == << claims, convertEpoch, epochUnit, processed, last >>

mainVars == << pc, flags, config, stdout, exitErr, outputData, written >>

vars == << claims, convertEpoch, epochUnit, processed, last,
           pc, flags, config, stdout, exitErr, outputData, written >>

(***************************************************************************)
(* Claim sets                                                              *)
(***************************************************************************)

\* The most claims a decoded token carries at the top level.
MaxClaims == 2

Float(n) == VFloat(I64(FALSE, NatDigits(n)))

KeySub == << "s", "u", "b" >>
KeyRoles == << "r", "o", "l", "e", "s" >>
KeyNote == << "n", "o", "t", "e" >>
KeyCtx == << "c", "t", "x" >>
KeyUid == << "u", "i", "d" >>
KeyFormula == << "=", "k" >>

\* The (key, value) pairs claim sets are built from: epoch claims with numeric
\* and non-numeric values, a real claim named like a datestamp companion,
\* strings with formula prefixes, separators, quotes and line breaks, an
\* integer-valued number under an ordinary key, a nested map, a slice
\* holding a map, and a key that begins like a spreadsheet formula.
ClaimPool ==
    { << ClaimIAT, Float(1700000000) >>,
      << ClaimIAT, VString(<< "x" >>) >>,
      << ClaimIAT \o DatestampSuffix, VString(<< "r", "e", "a", "l" >>) >>,
      << KeySub, VString(<< "=", "1", "+", "1" >>) >>,
      << KeyNote, VString(<< "a", ",", "\"", "b", "\n", "c" >>) >>,
      << KeyUid, VFloat(I64(TRUE, NatDigits(5))) >>,
      << KeyCtx, VMap((<< "y" >> :> VNil) @@ (<< "x" >> :> VBool(TRUE))) >>,
      << KeyRoles, VSlice(<< VString(<< "a" >>), VMap(<< "k" >> :> Float(1)) >>) >>,
      << KeyFormula, VBool(TRUE) >> }

\* The map holding the pairs of P (which have distinct keys).
MapOf(P) == [ k \in { e[1] : e \in P } |-> (CHOOSE e \in P : e[1] = k)[2] ]

ClaimSets ==
    { MapOf(P) : P \in { Q \in SUBSET ClaimPool :
                           /\ Cardinality(Q) <= MaxClaims
                           /\ \A e1, e2 \in Q : e1[1] = e2[1] => e1 = e2 } }

\* The (convertEpoch, epochUnit) arguments tried.
UnitNone == << >>
UnitS == << "s" >>
UnitMS == << "m", "s" >>

FormatArgs ==
    { << FALSE, UnitNone >>, << TRUE, UnitNone >>, << TRUE, UnitS >>, << TRUE, UnitMS >> }

(***************************************************************************)
(* The formatter calls                                                     *)
(***************************************************************************)

NoCall ==
    [ op |-> "none", input |-> EmptyMap, out |-> << >>, headers |-> << >>,
      row |-> << >>, cells |-> << >>, nodes |-> << >>, ret |-> EmptyMap,
      present |-> FALSE ]

NotProcessed == [ set |-> FALSE, fresh |-> FALSE, m |-> EmptyMap ]

\* main is not running while the formatters are called on their own.
MainIdle ==
    /\ pc = "idle"
    /\ flags = [ given |-> FALSE ]
    /\ config = [ set |-> FALSE ]
    /\ stdout = << >>
    /\ exitErr = "none"
    /\ outputData = << >>
    /\ written = << >>

InitFmt ==
    /\ claims \in ClaimSets
    /\ \E a \in FormatArgs : convertEpoch = a[1] /\ epochUnit = a[2]
    /\ processed = NotProcessed
    /\ last = NoCall
    /\ MainIdle

\* The map the one-argument renderers are given: the one PreprocessClaims
\* returned once it was called, the decoded claims before that.
Prepared == IF processed.set THEN processed.m ELSE claims

\* The caller's maps after a one-argument renderer left its argument as m.
\* The argument is the caller's claim map itself unless PreprocessClaims made
\* a new one.
AfterCall(m) ==
    IF processed.set
    THEN /\ processed' = [ processed EXCEPT !.m = m ]
         /\ claims' = IF processed.fresh THEN claims ELSE m
    ELSE /\ processed' = processed
         /\ claims' = m

\* The values a CSV renderer reads its cells from: the flattened map in
\* header order.
CellsOf(flattened, headers) == [ i \in 1..Len(headers) |-> flattened[headers[i]] ]

CallPreprocessClaims ==
    \E order \in IterationOrders(claims) :
        \E r \in { PreprocessClaims(claims, convertEpoch, epochUnit, order) } :
            /\ claims' = r.claims
            /\ processed' = [ set |-> TRUE, fresh |-> r.fresh, m |-> r.ret ]
            /\ last' = [ NoCall EXCEPT !.op = "PreprocessClaims", !.input = claims,
                                       !.ret = r.ret ]
            /\ UNCHANGED << convertEpoch, epochUnit >>
            /\ UNCHANGED mainVars

CallFormatJSON ==
    \E r \in { FormatJSON(Prepared) } :
        /\ AfterCall(r.claims)
        /\ last' = [ NoCall EXCEPT !.op = "FormatJSON", !.input = Prepared, !.out = r.out ]
        /\ UNCHANGED << convertEpoch, epochUnit >>
        /\ UNCHANGED mainVars

CallFormatCSV ==
    \E o \in Oracles(Prepared) :
        \E flattened \in { flattenClaimsForCSV(Prepared, o.top) } :
        \E r \in { FormatCSV(Prepared, o.top, NestedOrder(flattened, o)) } :
            /\ AfterCall(r.claims)
            /\ last' = [ NoCall EXCEPT !.op = "FormatCSV", !.input = Prepared,
                                       !.out = r.out, !.headers = r.headers,
                                       !.row = r.row,
                                       !.cells = CellsOf(flattened, r.headers) ]
            /\ UNCHANGED << convertEpoch, epochUnit >>
            /\ UNCHANGED mainVars

CallFormatXML ==
    \E o \in Oracles(Prepared) :
        \E r \in { FormatXML(Prepared, o) } :
            /\ AfterCall(r.claims)
            /\ last' = [ NoCall EXCEPT !.op = "FormatXML", !.input = Prepared,
                                       !.out = r.out, !.nodes = r.nodes ]
            /\ UNCHANGED << convertEpoch, epochUnit >>
            /\ UNCHANGED mainVars

CallFormatJSON_p2 ==
    \E order \in IterationOrders(claims) :
        \E r \in { FormatJSON_p2(claims, convertEpoch, epochUnit, order) } :
            /\ claims' = r.claims
            /\ last' = [ NoCall EXCEPT !.op = "FormatJSON_p2", !.input = claims,
                                       !.out = r.out, !.ret = r.extended ]
            /\ UNCHANGED << convertEpoch, epochUnit, processed >>
            /\ UNCHANGED mainVars

CallFormatCSV_p2 ==
    \E o \in Oracles(claims) :
        \E flattened \in { flattenClaims(claims, << >>, convertEpoch, epochUnit, o.top) } :
        \E r \in { FormatCSV_p2(claims, convertEpoch, epochUnit, o.top,
                                NestedOrder(flattened, o)) } :
            /\ claims' = r.claims
            /\ last' = [ NoCall EXCEPT !.op = "FormatCSV_p2", !.input = claims,
                                       !.out = r.out, !.headers = r.headers,
                                       !.row = r.row,
                                       !.cells = CellsOf(flattened, r.headers) ]
            /\ UNCHANGED << convertEpoch, epochUnit, processed >>
            /\ UNCHANGED mainVars

CallFormatXML_p2 ==
    \E o \in Oracles(claims) :
        \E r \in { FormatXML_p2(claims, convertEpoch, epochUnit, o) } :
            /\ claims' = r.claims
            /\ last' = [ NoCall EXCEPT !.op = "FormatXML_p2", !.input = claims,
                                       !.out = r.out, !.nodes = r.nodes ]
            /\ UNCHANGED << convertEpoch, epochUnit, processed >>
            /\ UNCHANGED mainVars

NextFmt ==
    \/ CallPreprocessClaims
    \/ CallFormatJSON
    \/ CallFormatCSV
    \/ CallFormatXML
    \/ CallFormatJSON_p2
    \/ CallFormatCSV_p2
    \/ CallFormatXML_p2

SpecFmt == InitFmt /\ [][NextFmt]_vars

(***************************************************************************)
(* Properties of the formatter calls                                       *)
(***************************************************************************)

EpochKeys == { ClaimIAT, ClaimEXP, ClaimNBF, ClaimAuthTime }

\* A value the normalizer reads as a number: a float64, or a json.Number
\* holding an integer.
NumericallyInterpretable(v) ==
    \/ v.t = "float64"
    \/ v.t = "json.Number" /\ ParseInt64(v.j).ok

\* strings.Contains.
HasSubstring(s, sub) ==
    \E i \in 0..(Len(s) - Len(sub)) : SubSeq(s, i + 1, i + Len(sub)) = sub

CSVOps == { "FormatCSV", "FormatCSV_p2" }

XMLOps == { "FormatXML", "FormatXML_p2" }

\* C2: two executions of PreprocessClaims, FormatCSV or FormatXML (either
\* implementation) on the same input and configuration produce the same
\* result, byte for byte, whatever order the claim map is iterated in.
RenderingDeterministic ==
    [][ ( /\ last.op \in CSVOps \cup XMLOps \cup { "PreprocessClaims" }
          /\ last'.op = last.op
          /\ last'.input = last.input )
        => ( last'.out = last.out /\ last'.ret = last.ret ) ]_vars

\* C3: the map returned by PreprocessClaims(C, convertEpoch, unit) holds under
\* k_datestamp the datestamp of C[k] if and only if convertEpoch is set, k is
\* one of iat, exp, nbf, auth_time and C[k] is numerically interpretable;
\* every other entry of the result is an unchanged entry of C.
CompanionIffTimestamp ==
    last.op = "PreprocessClaims" =>
        LET C == last.input
            R == last.ret
            due(k) == convertEpoch /\ k \in EpochKeys /\ NumericallyInterpretable(C[k])
            stamp(k) == VString(convertEpochToHumanReadable(k, C[k], epochUnit).s)
            holds(k) == /\ (k \o DatestampSuffix) \in DOMAIN R
                        /\ R[k \o DatestampSuffix] = stamp(k)
        IN  /\ \A k \in DOMAIN C : due(k) <=> holds(k)
            /\ \A j \in DOMAIN R :
                  \/ \E k \in DOMAIN C : due(k) /\ j = k \o DatestampSuffix /\ R[j] = stamp(k)
                  \/ j \in DOMAIN C /\ R[j] = C[j]

\* C4: with convertEpoch set, the bytes each three-argument renderer produces
\* contain, for every top-level iat, exp, nbf or auth_time claim with a numeric
\* value, the datestamp convertEpochToHumanReadable computes for it.
DatestampInOutput ==
    ( last.op \in { "FormatJSON_p2", "FormatCSV_p2", "FormatXML_p2" } /\ convertEpoch ) =>
        \A k \in DOMAIN last.input \cap EpochKeys :
            NumericallyInterpretable(last.input[k]) =>
                HasSubstring(last.out,
                             convertEpochToHumanReadable_p2(k, last.input[k], epochUnit).s)

\* C5: no call of PreprocessClaims or of a renderer (either implementation)
\* changes the caller's claim map or the map it was given, and with
\* convertEpoch set PreprocessClaims returns a map of its own.
InputsNotMutated ==
    [][ /\ claims' = claims
        /\ last'.input = IF last'.op \in { "FormatJSON", "FormatCSV", "FormatXML" }
                         THEN Prepared ELSE claims
        /\ (processed.set /\ last'.op # "PreprocessClaims") => processed' = processed
        /\ (last'.op = "PreprocessClaims" /\ convertEpoch) => processed'.fresh
      ]_vars

\* A converted claim set is held next to the untouched decoded claims after a
\* renderer has read it.
InputsNotMutatedWitness ==
    /\ last.op = "FormatCSV"
    /\ processed.set /\ processed.fresh
    /\ ClaimIAT \in DOMAIN claims
    /\ (ClaimIAT \o DatestampSuffix) \notin DOMAIN claims
    /\ (ClaimIAT \o DatestampSuffix) \in DOMAIN processed.m

\* The record terminators of CSV text: the line feeds outside quoted fields,
\* counted the way encoding/csv's Reader splits records (a double quote
\* opens or closes a quoted field; a doubled one closes and reopens it).
RECURSIVE RecordBreaksFrom(_, _, _, _)
RecordBreaksFrom(text, i, quoted, n) ==
    IF i > Len(text) \/ n < 0 THEN n
    ELSE IF text[i] = "\"" THEN RecordBreaksFrom(text, i + 1, ~quoted, n)
    ELSE IF text[i] = "\n" /\ ~quoted THEN RecordBreaksFrom(text, i + 1, quoted, n + 1)
    ELSE RecordBreaksFrom(text, i + 1, quoted, n)

RecordBreaks(text) == RecordBreaksFrom(text, 1, FALSE, 0)

RECURSIVE SumLineFeeds(_)
SumLineFeeds(fields) ==
    IF fields = << >> THEN 0
    ELSE CountChar(Head(fields), "\n") + SumLineFeeds(Tail(fields))

\* C6 as written: the output of FormatCSV is exactly two lines.
CSVTwoLines ==
    last.op \in CSVOps => CountChar(last.out, "\n") = 2

\* C6: the output of FormatCSV is exactly two CSV records, a header record
\* and a data record, each ended by a line feed outside quoted fields; a line
\* feed inside a column name or a value stays inside a quoted field and adds a
\* line, so the output is two lines exactly when no cell holds a line feed.
CSVTwoRecords ==
    last.op \in CSVOps =>
        /\ RecordBreaks(last.out) = 2
        /\ last.out[Len(last.out)] = "\n"
        /\ CountChar(last.out, "\n")
              = 2 + SumLineFeeds(last.headers) + SumLineFeeds(last.row)

\* A value with a line feed rendered next to another column: three lines, two
\* records.
CSVTwoRecordsWitness ==
    /\ last.op \in CSVOps
    /\ Len(last.row) = 2
    /\ SumLineFeeds(last.row) = 1
    /\ CountChar(last.out, "\n") = 3

\* No claims at all: two empty records.
CSVEmptyWitness ==
    /\ last.op \in CSVOps
    /\ last.headers = << >>
    /\ last.out = << "\n", "\n" >>

\* C7: the header row FormatCSV writes is in strictly ascending byte-wise
\* order, without duplicates, the _datestamp columns included.
HeadersAscending ==
    last.op \in CSVOps =>
        /\ \A i \in 1..(Len(last.headers) - 1) :
              StrLess(last.headers[i], last.headers[i + 1])
        /\ HasPrefix(last.out, csvWrite(last.headers))

\* Three columns, one of them the companion of a timestamp.
HeadersAscendingWitness ==
    /\ last.op = "FormatCSV_p2"
    /\ Len(last.headers) = 3
    /\ \E i \in 1..3 : last.headers[i] = ClaimIAT \o DatestampSuffix
    /\ ClaimIAT \o DatestampSuffix \notin DOMAIN last.input

FormulaPrefixes == { "=", "+", "-", "@" }

\* C8: the data cell FormatCSV hands to the writer is a single quote followed
\* by the value's string form s when s begins with =, +, - or @, and s
\* itself otherwise.
CellsEscaped ==
    last.op \in CSVOps =>
        /\ Len(last.row) = Len(last.headers)
        /\ \A i \in 1..Len(last.row) :
              LET str == Sprintf(last.cells[i])
              IN  last.row[i] = IF Len(str) > 0 /\ str[1] \in FormulaPrefixes
                                THEN << "'" >> \o str
                                ELSE str

\* A row with an escaped cell next to one left alone.
CellsEscapedWitness ==
    /\ last.op = "FormatCSV_p2"
    /\ \E i, j \in 1..Len(last.row) :
          /\ Len(last.row[i]) > 1 /\ last.row[i][1] = "'"
          /\ last.row[i][2] \in FormulaPrefixes
          /\ Len(last.row[j]) > 0 /\ last.row[j] = Sprintf(last.cells[j])

\* An XML element renders a value structurally: a map as one child per key,
\* a slice as one child per item, each rendered the same way again, and only
\* other values as text.
RECURSIVE Structural(_, _)
Structural(value, node) ==
    CASE value.t = "map" ->
            /\ node.content = << >>
            /\ Len(node.nodes) = Cardinality(DOMAIN value.m)
            /\ \A i \in 1..Len(node.nodes) :
                  /\ node.nodes[i].name \in DOMAIN value.m
                  /\ Structural(value.m[node.nodes[i].name], node.nodes[i])
      [] value.t = "slice" ->
            /\ node.content = << >>
            /\ Len(node.nodes) = Len(value.a)
            /\ \A i \in 1..Len(node.nodes) : Structural(value.a[i], node.nodes[i])
      [] OTHER ->
            node.nodes = << >>

\* C9: in the XML output no map or slice at any depth is rendered as text:
\* every item of a slice that is a map or a slice is rendered as child
\* elements.
XMLStructural ==
    last.op \in XMLOps =>
        \A i \in 1..Len(last.nodes) :
            /\ last.nodes[i].name \in DOMAIN last.input
            /\ Structural(last.input[last.nodes[i].name], last.nodes[i])

\* The plain decimal digits of an integer.
PlainDecimal(x) == (IF x.neg THEN << "-" >> ELSE << >>) \o MagText(x.mag)

\* C10: an integer-valued float64 claim is rendered in a CSV cell and in XML
\* text as its plain decimal digits, never in exponent notation.
IntegersPlain ==
    /\ last.op \in CSVOps =>
          \A i \in 1..Len(last.row) :
              last.cells[i].t = "float64" =>
                  last.row[i] \in { PlainDecimal(last.cells[i].n),
                                    << "'" >> \o PlainDecimal(last.cells[i].n) }
    /\ last.op \in XMLOps =>
          \A i \in 1..Len(last.nodes) :
              LET v == last.input[last.nodes[i].name]
              IN  v.t = "float64" => last.nodes[i].content = PlainDecimal(v.n)

(***************************************************************************)
(* main.go: paths                                                          *)
(***************************************************************************)

\* strings.Split(path, sep) for a separator of one character.
RECURSIVE SplitFrom(_, _, _, _)
SplitFrom(path, sep, i, cur) ==
    IF i > Len(path) THEN << cur >>
    ELSE IF path[i] = sep THEN << cur >> \o SplitFrom(path, sep, i + 1, << >>)
    ELSE SplitFrom(path, sep, i + 1, cur \o << path[i] >>)

Split(str, sep) == SplitFrom(str, sep, 1, << >>)

DotDot == << ".", "." >>

\* The elements filepath.Clean keeps, given the elements still to read and
\* those kept so far: empty and "." elements go, ".." removes the element
\* before it, is dropped at the root and kept at the start of a relative path.
RECURSIVE CleanElements(_, _, _)
CleanElements(elems, kept, rooted) ==
    IF elems = << >> \/ Len(kept) < 0 THEN kept
    ELSE LET e == Head(elems)
         IN  IF e = << >> \/ e = << "." >> THEN CleanElements(Tail(elems), kept, rooted)
             ELSE IF e = DotDot
                  THEN IF kept # << >> /\ kept[Len(kept)] # DotDot
                       THEN CleanElements(Tail(elems), SubSeq(kept, 1, Len(kept) - 1), rooted)
                       ELSE IF rooted THEN CleanElements(Tail(elems), kept, rooted)
                       ELSE CleanElements(Tail(elems), kept \o << e >>, rooted)
                  ELSE CleanElements(Tail(elems), kept \o << e >>, rooted)

\* filepath.Clean on a system whose separator is "/".
Clean(path) ==
    IF path = << >> THEN << "." >>
    ELSE LET rooted == path[1] = "/"
             kept   == CleanElements(Split(path, "/"), << >>, rooted)
             body   == Join(kept, << "/" >>)
         IN  IF rooted THEN << "/" >> \o body
             ELSE IF body = << >> THEN << "." >> ELSE body

DigitsOneToNine == { "1", "2", "3", "4", "5", "6", "7", "8", "9" }

\* The alternatives of specialDeviceRegex, matched without regard to case
\* at the start of the path.
DevicePrefixes ==
    { << "/", "d", "e", "v", "/" >>, << "/", "p", "r", "o", "c", "/" >>,
      << "/", "s", "y", "s", "/" >>, << "n", "u", "l" >>, << "c", "o", "n" >>,
      << "p", "r", "n" >>, << "a", "u", "x" >> }
      \cup { << "c", "o", "m", d >> : d \in DigitsOneToNine }
      \cup { << "l", "p", "t", d >> : d \in DigitsOneToNine }

\* specialDeviceRegex.MatchString(path): one of the alternatives, followed by
\* the end of the path, a backslash or a slash.
specialDeviceRegex(path) ==
    \E pre \in DevicePrefixes :
        /\ HasPrefix(ToLower(path), pre)
        /\ \/ Len(path) = Len(pre)
           \/ path[Len(pre) + 1] \in { "\\", "/" }

\* sanitizeFilePath(p) of main.go and of the token package.
sanitizeFilePath(p) ==
    IF p = << >> THEN [ ok |-> TRUE, path |-> << >> ]
    ELSE LET cleanedPath == Clean(p)
         IN  IF specialDeviceRegex(cleanedPath)
             THEN [ ok |-> FALSE, path |-> << >> ]
             ELSE [ ok |-> TRUE, path |-> cleanedPath ]

\* utils.SanitizeFilePath(p), the copy config.LoadConfig calls.
SanitizeFilePath(p) ==
    IF p = << >> THEN [ ok |-> TRUE, path |-> << >> ]
    ELSE LET cleanedPath == Clean(p)
         IN  IF specialDeviceRegex(cleanedPath)
             THEN [ ok |-> FALSE, path |-> << >> ]
             ELSE [ ok |-> TRUE, path |-> cleanedPath ]

(***************************************************************************)
(* The token package                                                       *)
(***************************************************************************)

TypeString == << "s", "t", "r", "i", "n", "g" >>
TypeFile == << "f", "i", "l", "e" >>
TypeEnvironment == << "e", "n", "v", "i", "r", "o", "n", "m", "e", "n", "t" >>
EnvJWTToken == << "J", "W", "T", "_", "T", "O", "K", "E", "N" >>

\* strings.TrimSpace.
RECURSIVE TrimSpace(_)
TrimSpace(str) ==
    IF str # << >> /\ str[1] \in { " ", "\n" } THEN TrimSpace(Tail(str))
    ELSE IF str # << >> /\ str[Len(str)] \in { " ", "\n" }
         THEN TrimSpace(SubSeq(str, 1, Len(str) - 1))
         ELSE str

\* os.Getenv: an unset variable reads as the empty string.
Getenv(os, name) == IF name \in DOMAIN os.env THEN os.env[name] ELSE << >>

\* GetToken(tokenType, tokenSourceValue) in the environment os.
GetToken(os, tokenType, tokenSourceValue) ==
    CASE tokenType = TypeString ->
            [ ok |-> TRUE, jwt |-> tokenSourceValue ]
      [] tokenType = TypeFile ->
            LET sp == sanitizeFilePath(tokenSourceValue)
            IN  IF ~sp.ok THEN [ ok |-> FALSE, jwt |-> << >> ]
                ELSE IF sp.path \notin DOMAIN os.files THEN [ ok |-> FALSE, jwt |-> << >> ]
                ELSE LET jwtToken == TrimSpace(os.files[sp.path].text)
                     IN  IF jwtToken = << >> THEN [ ok |-> FALSE, jwt |-> << >> ]
                         ELSE [ ok |-> TRUE, jwt |-> jwtToken ]
      [] tokenType = TypeEnvironment ->
            LET envVarName == IF tokenSourceValue = << >> THEN EnvJWTToken
                              ELSE tokenSourceValue
                jwtToken == Getenv(os, envVarName)
            IN  IF jwtToken = << >> THEN [ ok |-> FALSE, jwt |-> << >> ]
                ELSE [ ok |-> TRUE, jwt |-> jwtToken ]
      [] OTHER -> [ ok |-> FALSE, jwt |-> << >> ]

(***************************************************************************)
(* The config package                                                      *)
(***************************************************************************)

FormatJSONName == << "J", "S", "O", "N" >>
FormatCSVName == << "C", "S", "V" >>
FormatXMLName == << "X", "M", "L" >>

\* What json.Unmarshal leaves in a zero Config for a file that sets nothing.
ZeroConfig ==
    [ JWTToken |-> << >>, TokenType |-> << >>, OutputFormat |-> << >>,
      OutputFile |-> << >>, ConvertEpoch |-> FALSE, SilentExec |-> FALSE,
      MaxTokenSizeMB |-> I64(FALSE, << 0 >>), MaxOutputSizeMB |-> I64(FALSE, << 0 >>) ]

\* ReadConfig(filePath) in the environment os; a file holds the Config
\* json.Unmarshal decodes from it, or no JSON at all.
ReadConfig(os, filePath) ==
    IF filePath \notin DOMAIN os.files THEN [ ok |-> FALSE, cfg |-> ZeroConfig ]
    ELSE IF ~os.files[filePath].json THEN [ ok |-> FALSE, cfg |-> ZeroConfig ]
    ELSE LET c0 == os.files[filePath].config
             lowered == ToLower(c0.TokenType)
             tokenType == IF lowered = << >> /\ c0.JWTToken # << >>
                          THEN TypeString ELSE lowered
             format == ToUpper(c0.OutputFormat)
         IN  IF tokenType = << >> THEN [ ok |-> FALSE, cfg |-> ZeroConfig ]
             ELSE IF tokenType \in { TypeString, TypeFile } /\ c0.JWTToken = << >>
                  THEN [ ok |-> FALSE, cfg |-> ZeroConfig ]
             ELSE IF tokenType \notin { TypeString, TypeFile, TypeEnvironment }
                  THEN [ ok |-> FALSE, cfg |-> ZeroConfig ]
             ELSE IF format \notin { << >>, FormatJSONName, FormatCSVName, FormatXMLName }
                  THEN [ ok |-> FALSE, cfg |-> ZeroConfig ]
             ELSE [ ok |-> TRUE,
                    cfg |-> [ c0 EXCEPT !.TokenType = tokenType, !.OutputFormat = format ] ]

(***************************************************************************)
(* main.go                                                                 *)
(***************************************************************************)

\* x * 2^k on magnitudes.  The test on the accumulator only makes it
\* evaluated at every step.
RECURSIVE DoubleTimes(_, _)
DoubleTimes(mag, k) ==
    IF k = 0 \/ Len(mag) = 0 THEN mag ELSE DoubleTimes(AddMag(mag, mag), k - 1)

\* sizeMB*1024*1024 in int arithmetic (64 bits, wrapping).
MiB(sizeMB) == Wrap64(I64(sizeMB.neg, DoubleTimes(sizeMB.mag, 20)))

Int64(n) == IF n < 0 THEN I64(TRUE, NatDigits(-n)) ELSE I64(FALSE, NatDigits(n))

\* printTokenSnippet(token): what it prints.
printTokenSnippet(token) ==
    IF Len(token) <= 23 THEN token
    ELSE SubSeq(token, 1, 10) \o << ".", ".", "." >>
            \o SubSeq(token, Len(token) - 9, Len(token))

\* The "Token from ..." line.
TokenLine(source, token) ==
    [ msg |-> "Token from", source |-> source, text |-> printTokenSnippet(token) ]

Line(msg) == [ msg |-> msg, source |-> "", text |-> << >> ]

NoConfig ==
    [ JWTToken |-> << >>, OutputFormat |-> << >>, OutputFile |-> << >>,
      ConvertEpoch |-> FALSE, EpochUnit |-> << >>, IsSilent |-> FALSE,
      MaxTokenSize |-> Int64(0), MaxOutputSize |-> Int64(0) ]

Failed(err, out) == [ ok |-> FALSE, status |-> 1, err |-> err, out |-> out, cfg |-> NoConfig ]

\* The checks at the end of parseAndValidateArgs: token size and dot count.
validateToken(cfg, out) ==
    IF Gt64(Int64(Len(cfg.JWTToken)), MiB(cfg.MaxTokenSize))
    THEN Failed("JWT token size exceeds limit", out)
    ELSE IF CountChar(cfg.JWTToken, ".") # 2
         THEN Failed("invalid JWT token format; expected 2 dots", out)
         ELSE [ ok |-> TRUE, status |-> 0, err |-> "none", out |-> out, cfg |-> cfg ]

\* The branch of parseAndValidateArgs taken when -config is given.
parseConfigFile(f, os, configFile, appConfig) ==
    IF \/ f.tokenString # << >> \/ f.tokenFile # << >> \/ f.tokenEnv
       \/ f.outputFormat # << >> \/ f.outputFile # << >> \/ f.convertEpoch \/ f.silent
       \/ f.maxTokenSize # Int64(1) \/ f.maxOutputSize # Int64(100)
       \/ f.epochUnit # << >>
    THEN Failed("config file specified, but other arguments are present", << >>)
    ELSE LET rc == ReadConfig(os, configFile)
             cfg == rc.cfg
             gt == GetToken(os, cfg.TokenType, cfg.JWTToken)
             source == CASE cfg.TokenType = TypeString -> "Config (String)"
                         [] cfg.TokenType = TypeFile -> "Config (File)"
                         [] cfg.TokenType = TypeEnvironment -> "Config (Environment)"
                         [] OTHER -> ""
             out == IF ~appConfig.IsSilent THEN << TokenLine(source, gt.jwt) >> ELSE << >>
         IN  IF ~rc.ok THEN Failed("reading config file", << >>)
             ELSE IF ~gt.ok THEN Failed("getting token from config", << >>)
             ELSE validateToken([ appConfig EXCEPT
                                    !.JWTToken = gt.jwt,
                                    !.OutputFormat = cfg.OutputFormat,
                                    !.OutputFile = cfg.OutputFile,
                                    !.ConvertEpoch = cfg.ConvertEpoch,
                                    !.IsSilent = cfg.SilentExec,
                                    !.MaxTokenSize = cfg.MaxTokenSizeMB,
                                    !.MaxOutputSize = cfg.MaxOutputSizeMB ], out)

DefaultOutputFile(format) ==
    << "c", "l", "a", "i", "m", "s", "." >> \o ToLower(format)

\* The branch of parseAndValidateArgs taken without -config.
parseCommandLine(f, os, outputFile0, tokenFile, appConfig) ==
    LET tokenSourcesProvided ==
            (IF f.tokenString # << >> THEN 1 ELSE 0)
              + (IF tokenFile # << >> THEN 1 ELSE 0) + (IF f.tokenEnv THEN 1 ELSE 0)
        tokenSourceType ==
            IF f.tokenEnv THEN TypeEnvironment
            ELSE IF tokenFile # << >> THEN TypeFile ELSE TypeString
        tokenSourceValue ==
            IF f.tokenEnv THEN << >>
            ELSE IF tokenFile # << >> THEN tokenFile ELSE f.tokenString
        gt == GetToken(os, tokenSourceType, tokenSourceValue)
        source == CASE tokenSourceType = TypeString -> "String"
                    [] tokenSourceType = TypeFile -> "File"
                    [] OTHER -> "Environment"
        out == IF ~appConfig.IsSilent THEN << TokenLine(source, gt.jwt) >> ELSE << >>
        outputFormat == ToUpper(IF f.outputFormat = << >> THEN FormatJSONName
                                ELSE f.outputFormat)
        outputFile == IF outputFile0 = << >> THEN DefaultOutputFile(outputFormat)
                      ELSE outputFile0
    IN  IF tokenSourcesProvided > 1
        THEN Failed("multiple token sources provided; only one is allowed", << >>)
        ELSE IF tokenSourcesProvided = 0 THEN Failed("no token source provided", << >>)
        ELSE IF ~gt.ok THEN Failed("getting token from command-line", << >>)
        ELSE IF outputFormat \notin { FormatJSONName, FormatCSVName, FormatXMLName }
             THEN Failed("invalid output format; must be JSON, CSV, or XML", out)
        ELSE validateToken([ appConfig EXCEPT !.JWTToken = gt.jwt,
                                              !.OutputFormat = outputFormat,
                                              !.OutputFile = outputFile ], out)

\* parseAndValidateArgs() for the flags f in the environment os: the AppConfig
\* or the error, what was printed, and the exit status (-version ends the
\* run with status 0).
parseAndValidateArgs(f, os) ==
    IF f.showVersion
    THEN [ ok |-> FALSE, status |-> 0, err |-> "none", out |-> << Line("version") >>,
           cfg |-> NoConfig ]
    ELSE LET appConfig == [ NoConfig EXCEPT !.ConvertEpoch = f.convertEpoch,
                                            !.EpochUnit = f.epochUnit,
                                            !.IsSilent = f.silent,
                                            !.MaxTokenSize = f.maxTokenSize,
                                            !.MaxOutputSize = f.maxOutputSize ]
             configFile == sanitizeFilePath(f.configFile)
             outputFile == sanitizeFilePath(f.outputFile)
             tokenFile  == sanitizeFilePath(f.tokenFile)
         IN  IF ~configFile.ok THEN Failed("sanitizing config file path", << >>)
             ELSE IF ~outputFile.ok THEN Failed("sanitizing output file path", << >>)
             ELSE IF ~tokenFile.ok THEN Failed("sanitizing token file path", << >>)
             ELSE IF configFile.path # << >>
                  THEN parseConfigFile(f, os, configFile.path, appConfig)
                  ELSE parseCommandLine(f, os, outputFile.path, tokenFile.path, appConfig)

(***************************************************************************)
(* Tokens.  The payload segment of a well-formed token names the claim set *)
(* it carries; ParseUnverified decodes numbers as float64.                 *)
(***************************************************************************)

TokenClaims ==
    << MapOf({ << ClaimIAT, Float(1700000000) >> }),
       EmptyMap,
       MapOf({ << KeySub, VString(<< "=", "1", "+", "1" >>) >>,
               << KeyNote, VString(<< "l", "1", "\n", "l", "2" >>) >> }),
       MapOf({ << KeyRoles, VSlice(<< VString(<< "a" >>), VMap(<< "k" >> :> Float(1)) >>) >>,
               << KeyCtx, VMap((<< "y" >> :> VNil) @@ (<< "x" >> :> VBool(TRUE))) >> }),
       MapOf({ << ClaimIAT, Float(1700000000) >>,
               << ClaimIAT \o DatestampSuffix, VString(<< "r", "e", "a", "l" >>) >> }) >>

Payload(i) == << DigitChars[i + 1] >>

\* new(jwt.Parser).ParseUnverified(token, jwt.MapClaims{}): three segments, the
\* second one decodable.
ParseUnverified(token) ==
    LET parts == Split(token, ".")
    IN  IF Len(parts) # 3 THEN [ ok |-> FALSE, claims |-> EmptyMap ]
        ELSE IF \E i \in 1..Len(TokenClaims) : parts[2] = Payload(i)
             THEN [ ok |-> TRUE,
                    claims |-> TokenClaims[CHOOSE i \in 1..Len(TokenClaims) :
                                              parts[2] = Payload(i)] ]
             ELSE [ ok |-> FALSE, claims |-> EmptyMap ]

Token(i) == << "h", "." >> \o Payload(i) \o << ".", "s" >>

LongToken ==
    << "h", "e", "a", "d", "e", "r", "h", "e", "a", "d", "e", "r", ".", "1", ".",
       "s", "i", "g", "n", "a", "t", "u", "r", "e", "s", "i", "g" >>

TokenTexts ==
    { Token(i) : i \in 1..Len(TokenClaims) }
      \cup { LongToken,
             << "h", ".", "x", ".", "s" >>,      \* not decodable
             << "h", ".", "1" >>,                \* one dot
             << "h", ".", "1", ".", "s", ".", "t" >> }

(***************************************************************************)
(* Command lines and environments                                          *)
(***************************************************************************)

\* The flags as main's flag.Parse leaves them when none is given.  A command
\* line is the record of these values together with the names (explicit) of
\* the flags it gives with the very value the flag has when it is not given,
\* as in -silent=false or -max-token-size 1: flag.Parse leaves no trace of
\* those in the values.
DefaultFlags ==
    [ tokenString |-> << >>, tokenFile |-> << >>, tokenEnv |-> FALSE,
      outputFormat |-> << >>, outputFile |-> << >>, configFile |-> << >>,
      showVersion |-> FALSE, convertEpoch |-> FALSE, epochUnit |-> << >>,
      silent |-> FALSE, maxTokenSize |-> Int64(1), maxOutputSize |-> Int64(100),
      explicit |-> {} ]

\* The flags other than -config and -version.
OtherFlags ==
    { "token-string", "token-file", "token-env", "output-format", "output-file",
      "convert-epoch", "epoch-unit", "silent", "max-token-size", "max-output-size" }

PathTokenFile == << "t", ".", "j", "w", "t" >>
PathConfig == << "c", ".", "j", "s", "o", "n" >>
PathConfigCSV == << "d", ".", "j", "s", "o", "n" >>
PathConfigBad == << "e", ".", "j", "s", "o", "n" >>
PathConfigTyped == << "f", ".", "j", "s", "o", "n" >>
PathConfigEmpty == << "g", ".", "j", "s", "o", "n" >>
PathOut == << "o", "/", ".", ".", "/", "o", "u", "t" >>
PathDevice == << "C", "O", "N" >>

TextFile(text) == [ text |-> text, json |-> FALSE, config |-> ZeroConfig ]

ConfigFile(c) == [ text |-> << >>, json |-> TRUE, config |-> c ]

\* The environments: the token file, a config file that sets only the token,
\* one that sets everything, one that is not JSON, one that sets only the
\* token and its type, one that sets nothing; JWT_TOKEN set or not.
Environments ==
    { [ env |-> e,
        files |-> (PathTokenFile :> TextFile(<< " " >> \o Token(3) \o << "\n" >>))
                  @@ (PathConfig :> ConfigFile([ ZeroConfig EXCEPT !.JWTToken = Token(1) ]))
                  @@ (PathConfigCSV :> ConfigFile(
                        [ JWTToken |-> EnvJWTToken, TokenType |-> TypeEnvironment,
                          OutputFormat |-> << "c", "s", "v" >>,
                          OutputFile |-> << "o", ".", "c", "s", "v" >>,
                          ConvertEpoch |-> TRUE, SilentExec |-> TRUE,
                          MaxTokenSizeMB |-> Int64(1), MaxOutputSizeMB |-> Int64(1) ]))
                  @@ (PathConfigBad :> TextFile(<< "{" >>))
                  @@ (PathConfigTyped :> ConfigFile(
                        [ ZeroConfig EXCEPT !.JWTToken = Token(1),
                                            !.TokenType = TypeString ]))
                  @@ (PathConfigEmpty :> ConfigFile(ZeroConfig)) ]
      : e \in { EmptyMap, (EnvJWTToken :> Token(5)) } }

\* -max-output-size: the default, one MB, none, negative, and a negative one
\* whose product with 1024*1024 wraps to a positive int.
OutputSizes ==
    { Int64(100), Int64(1), Int64(0), Int64(-1),
      I64(TRUE, << 1,7,5,9,2,1,8,6,0,4,4,4,1,5 >>) }

\* The token sources of a command line.
TokenSources ==
    { [ DefaultFlags EXCEPT !.tokenString = t ] : t \in TokenTexts }
      \cup { DefaultFlags,
             [ DefaultFlags EXCEPT !.tokenFile = PathTokenFile ],
             [ DefaultFlags EXCEPT !.tokenFile = PathDevice ],
             [ DefaultFlags EXCEPT !.tokenFile = PathOut ],
             [ DefaultFlags EXCEPT !.tokenEnv = TRUE ],
             [ DefaultFlags EXCEPT !.tokenEnv = TRUE, !.tokenString = Token(1) ],
             [ DefaultFlags EXCEPT !.showVersion = TRUE ] }

OutputFormats ==
    { << >>, << "j", "s", "o", "n" >>, FormatCSVName, << "x", "m", "l" >>,
      << "y", "a", "m", "l" >> }

CommandLines ==
    { [ s EXCEPT !.outputFormat = fmt, !.maxOutputSize = size,
                 !.convertEpoch = ce[1], !.epochUnit = ce[2], !.silent = sil ]
        : s \in TokenSources, fmt \in OutputFormats, size \in OutputSizes,
          ce \in { << FALSE, UnitNone >>, << TRUE, UnitS >> }, sil \in BOOLEAN }
      \cup { [ DefaultFlags EXCEPT !.configFile = c ]
               : c \in { PathConfig, PathConfigCSV, PathConfigBad, PathConfigTyped,
                         PathConfigEmpty, PathOut, PathDevice } }
      \cup { [ DefaultFlags EXCEPT !.configFile = PathConfigTyped, !.explicit = { n } ]
               : n \in OtherFlags }
      \cup { [ DefaultFlags EXCEPT !.explicit = { n } ]
               : n \in { "token-string", "token-file", "token-env" } }
      \cup { [ DefaultFlags EXCEPT !.configFile = PathConfig, !.silent = TRUE ],
             [ DefaultFlags EXCEPT !.tokenString = Token(1), !.outputFile = PathOut ],
             [ DefaultFlags EXCEPT !.tokenString = Token(1), !.outputFile = PathDevice ],
             [ DefaultFlags EXCEPT !.tokenString = Token(1),
                                   !.maxTokenSize = Int64(0) ],
             [ DefaultFlags EXCEPT !.configFile = PathConfigTyped,
                                   !.maxTokenSize = Int64(0) ],
             [ DefaultFlags EXCEPT !.configFile = PathConfigTyped,
                                   !.tokenString = Token(1) ],
             [ DefaultFlags EXCEPT !.configFile = PathConfigTyped,
                                   !.outputFile = PathDevice ],
             [ DefaultFlags EXCEPT !.tokenFile = PathTokenFile,
                                   !.explicit = { "token-string" } ],
             [ DefaultFlags EXCEPT !.tokenString = Token(1), !.tokenEnv = TRUE,
                                   !.tokenFile = PathTokenFile ] }

(***************************************************************************)
(* A run of main                                                           *)
(***************************************************************************)

Init ==
    /\ pc = "parseAndValidateArgs"
    /\ flags \in { [ given |-> TRUE, args |-> a, os |-> o ]
                     : a \in CommandLines, o \in Environments }
    /\ config = NoConfig
    /\ stdout = << >>
    /\ exitErr = "none"
    /\ outputData = << >>
    /\ written = << >>
    /\ claims = EmptyMap
    /\ convertEpoch = FALSE
    /\ epochUnit = << >>
    /\ processed = NotProcessed
    /\ last = NoCall

\* logAndExit and os.Exit: the run is over.
Exit(err) == pc' = "exit" /\ exitErr' = err

fmtArgs == << convertEpoch, epochUnit, processed, last >>

\* main, lines 287-290: parseAndValidateArgs and its error.
ParseArgs ==
    /\ pc = "parseAndValidateArgs"
    /\ LET r == parseAndValidateArgs(flags.args, flags.os)
       IN  /\ stdout' = stdout \o r.out
           /\ IF r.ok
              THEN pc' = "ParseUnverified" /\ config' = r.cfg /\ exitErr' = exitErr
              ELSE Exit(r.err) /\ config' = config
    /\ UNCHANGED << flags, outputData, written, claims >>
    /\ UNCHANGED fmtArgs

\* main, lines 292-306: the announcement and jwt's ParseUnverified.
Decode ==
    /\ pc = "ParseUnverified"
    /\ LET r == ParseUnverified(config.JWTToken)
       IN  /\ stdout' = IF ~config.IsSilent
                        THEN stdout \o << Line("Decoding JWT token") >> ELSE stdout
           /\ IF r.ok
              THEN pc' = "Format" /\ claims' = r.claims /\ exitErr' = exitErr
              ELSE Exit("Error parsing JWT token") /\ claims' = claims
    /\ UNCHANGED << flags, config, outputData, written >>
    /\ UNCHANGED fmtArgs

\* main, lines 308-323: the renderer of the output format.  None of the
\* three returns an error for claims decoded from JSON.
Render ==
    /\ pc = "Format"
    /\ \E o \in Oracles(claims) :
          LET flattened == flattenClaims(claims, << >>, config.ConvertEpoch,
                                         config.EpochUnit, o.top)
          IN  CASE config.OutputFormat = FormatJSONName ->
                      /\ outputData' = FormatJSON_p2(claims, config.ConvertEpoch,
                                                     config.EpochUnit, o.top).out
                      /\ pc' = "SizeLimit" /\ exitErr' = exitErr
                [] config.OutputFormat = FormatCSVName ->
                      /\ outputData' = FormatCSV_p2(claims, config.ConvertEpoch,
                                                    config.EpochUnit, o.top,
                                                    NestedOrder(flattened, o)).out
                      /\ pc' = "SizeLimit" /\ exitErr' = exitErr
                [] config.OutputFormat = FormatXMLName ->
                      /\ outputData' = FormatXML_p2(claims, config.ConvertEpoch,
                                                    config.EpochUnit, o).out
                      /\ pc' = "SizeLimit" /\ exitErr' = exitErr
                [] OTHER ->
                      /\ Exit("Error: Unknown output format.")
                      /\ outputData' = outputData
    /\ UNCHANGED << flags, config, stdout, written, claims >>
    /\ UNCHANGED fmtArgs

\* The step after rendering without the size limit.
SizeLimitSkipped ==
    /\ pc = "SizeLimit"
    /\ pc' = "WriteOutput" /\ exitErr' = exitErr
    /\ UNCHANGED << flags, config, stdout, outputData, written, claims >>
    /\ UNCHANGED fmtArgs

\* main, lines 325-328: the output size limit.
SizeLimit ==
    /\ pc = "SizeLimit"
    /\ IF Gt64(Int64(Len(outputData)), MiB(config.MaxOutputSize))
       THEN Exit("Error: Formatted output size exceeds limit.")
       ELSE pc' = "WriteOutput" /\ exitErr' = exitErr
    /\ UNCHANGED << flags, config, stdout, outputData, written, claims >>
    /\ UNCHANGED fmtArgs

\* WriteOutput(data, filePath): os.WriteFile fails for the empty path and may
\* fail for any other.
WriteOutput(data, filePath, fails) ==
    [ data |-> data, filePath |-> filePath, ok |-> filePath # << >> /\ ~fails ]

\* main, lines 330-336: WriteOutput and the closing message.
Write ==
    /\ pc = "WriteOutput"
    /\ \E fails \in BOOLEAN :
          LET w == WriteOutput(outputData, config.OutputFile, fails)
          IN  /\ written' = Append(written, w)
              /\ IF w.ok
                 THEN /\ pc' = "done" /\ exitErr' = exitErr
                      /\ stdout' = IF ~config.IsSilent
                                   THEN stdout \o << Line("Successfully wrote output") >>
                                   ELSE stdout
                 ELSE Exit("Error writing output to file") /\ stdout' = stdout
    /\ UNCHANGED << flags, config, outputData, claims >>
    /\ UNCHANGED fmtArgs

Next ==
    \/ ParseArgs
    \/ Decode
    \/ Render
    \/ SizeLimit
    \/ Write

Spec == Init /\ [][Next]_vars

(***************************************************************************)
(* Properties of a run of main                                             *)
(***************************************************************************)

\* The run has rendered its output.
Rendered == outputData # << >>

\* len(outputData) > appConfig.MaxOutputSize*1024*1024, as main computes it.
OverLimit == Gt64(Int64(Len(outputData)), MiB(config.MaxOutputSize))

SizeLimitError == "Error: Formatted output size exceeds limit."

\* C1: WriteOutput is called at most once in a run, and only once the
\* arguments were validated, the token was decoded, the claims were rendered
\* and the size check let the output through, with the rendered bytes; a run
\* whose rendered output is longer than MaxOutputSize*1024*1024 ends in the
\* size-limit error without a call of WriteOutput, whatever the format.
WriteOnlyAfterChecks ==
    /\ Len(written) <= 1
    /\ written # << >> =>
          /\ pc \in { "done", "exit" }
          /\ parseAndValidateArgs(flags.args, flags.os).ok
          /\ config = parseAndValidateArgs(flags.args, flags.os).cfg
          /\ ParseUnverified(config.JWTToken).ok
          /\ claims = ParseUnverified(config.JWTToken).claims
          /\ config.OutputFormat \in { FormatJSONName, FormatCSVName, FormatXMLName }
          /\ Rendered /\ ~OverLimit
          /\ written[1].data = outputData
          /\ written[1].filePath = config.OutputFile
          /\ exitErr = IF written[1].ok THEN "none" ELSE "Error writing output to file"
    /\ (Rendered /\ OverLimit) =>
          /\ written = << >>
          /\ pc \in { "SizeLimit", "exit" }
          /\ pc = "exit" => exitErr = SizeLimitError

\* A CSV run stopped by a size limit of zero MB.
WriteOnlyAfterChecksWitness ==
    /\ pc = "exit" /\ exitErr = SizeLimitError
    /\ config.OutputFormat = FormatCSVName
    /\ config.MaxOutputSize = Int64(0)
    /\ Rendered /\ written = << >>

\* An XML run that wrote its output.
WrittenWitness ==
    /\ pc = "done" /\ Len(written) = 1
    /\ config.OutputFormat = FormatXMLName
    /\ written[1].data = outputData

(***************************************************************************)
(* convertEpochToHumanReadable called on its own                           *)
(***************************************************************************)

Ts(neg, mag) == VFloat(I64(neg, mag))

\* The claim values the normalizer is tried on: timestamps around zero, the
\* present in seconds and in milliseconds, the heuristic thresholds 1e10 and
\* 1e11 and their neighbours, a large negative count, the first second of
\* the year 10000, the last second before the year 0, the millisecond counts
\* around 2^63 / 1e6, and values that are not float64.
EpochValues ==
    { Ts(FALSE, << 0 >>), Ts(FALSE, << 1 >>), Ts(TRUE, << 1 >>),
      Ts(FALSE, << 1,7,0,0,0,0,0,0,0,0 >>),
      Ts(FALSE, << 1,0,0,0,0,0,0,0,0,0,0 >>),
      Ts(FALSE, << 1,0,0,0,0,0,0,0,0,0,1 >>),
      Ts(FALSE, << 1,0,0,0,0,0,0,0,0,0,0,0 >>),
      Ts(FALSE, << 1,0,0,0,0,0,0,0,0,0,0,1 >>),
      Ts(FALSE, << 1,7,0,0,0,0,0,0,0,0,0,0,0 >>),
      Ts(TRUE,  << 2,0,0,0,0,0,0,0,0,0,0,0 >>),
      Ts(FALSE, << 2,5,3,4,0,2,3,0,0,8,0,0 >>),
      Ts(TRUE,  << 6,2,1,6,7,2,1,9,2,0,1 >>),
      Ts(FALSE, << 9,2,2,3,3,7,2,0,3,6,8,5,4 >>),
      Ts(FALSE, << 9,2,2,3,3,7,2,0,3,6,8,5,5 >>),
      Ts(TRUE,  << 9,2,2,3,3,7,2,0,3,6,8,5,5 >>),
      VNumber(<< "1", "7", "0", "0", "0", "0", "0", "0", "0", "0" >>),
      VNumber(<< "1", ".", "5" >>),
      VString(<< "x" >>) }

UnitUS == << "u", "s" >>
UnitNS == << "n", "s" >>

\* The epochUnit arguments tried: none, the four units, one in upper case
\* and one that is no unit.
EpochUnits == { UnitNone, UnitS, UnitMS, << "M", "S" >>, UnitUS, UnitNS, << "m", "i", "n" >> }

InitEpoch ==
    /\ \E k \in { ClaimIAT, KeySub } : \E v \in EpochValues : claims = (k :> v)
    /\ convertEpoch = TRUE
    /\ epochUnit \in EpochUnits
    /\ processed = NotProcessed
    /\ last = NoCall
    /\ MainIdle

\* The claim the normalizer is called on.
EpochKey == CHOOSE k \in DOMAIN claims : TRUE

CallConvertEpoch ==
    \E ds \in { convertEpochToHumanReadable(EpochKey, claims[EpochKey], epochUnit) } :
        /\ last' = [ NoCall EXCEPT !.op = "convertEpochToHumanReadable",
                                   !.input = claims, !.out = ds.s, !.present = ds.ok ]
        /\ UNCHANGED << claims, convertEpoch, epochUnit, processed >>
        /\ UNCHANGED mainVars

CallConvertEpoch_p2 ==
    \E ds \in { convertEpochToHumanReadable_p2(EpochKey, claims[EpochKey], epochUnit) } :
        /\ last' = [ NoCall EXCEPT !.op = "convertEpochToHumanReadable_p2",
                                   !.input = claims, !.out = ds.s, !.present = ds.ok ]
        /\ UNCHANGED << claims, convertEpoch, epochUnit, processed >>
        /\ UNCHANGED mainVars

NextEpoch ==
    \/ CallConvertEpoch
    \/ CallConvertEpoch_p2

SpecEpoch == InitEpoch /\ [][NextEpoch]_vars

(***************************************************************************)
(* Properties of the epoch normalizer                                      *)
(***************************************************************************)

ConvertOps == { "convertEpochToHumanReadable", "convertEpochToHumanReadable_p2" }

\* The unit tokens the switch on strings.ToLower(epochUnit) knows.
MilliUnits == { UnitMS, << "m", "i", "l", "l", "i", "s", "e", "c", "o", "n", "d", "s" >> }

MicroUnits == { UnitUS, << "m", "i", "c", "r", "o", "s", "e", "c", "o", "n", "d", "s" >> }

RecognizedUnits ==
    { UnitS, << "s", "e", "c", "o", "n", "d", "s" >>,
      UnitNS, << "n", "a", "n", "o", "s", "e", "c", "o", "n", "d", "s" >> }
      \cup MilliUnits \cup MicroUnits

\* The call was made on an epoch claim holding a number.
NumericEpochCall ==
    /\ last.op \in ConvertOps
    /\ EpochKey \in EpochKeys
    /\ NumericallyInterpretable(claims[EpochKey])

\* The int64 timestamp of the call's value.
CallTimestamp == EpochTimestamp(claims[EpochKey]).v

\* C11: with an empty or unrecognized epochUnit, formatter.go's
\* convertEpochToHumanReadable returns a datestamp for every numeric value
\* (never an error), and the datestamp is the one of the millisecond reading
\* when the magnitude |t| of the timestamp exceeds 1e11 and the one of the
\* seconds reading otherwise, negative timestamps included.
HeuristicByMagnitude ==
    (/\ last.op = "convertEpochToHumanReadable"
     /\ NumericEpochCall
     /\ ToLower(epochUnit) \notin RecognizedUnits)
    => /\ last.present
       /\ last.out = FormatUTC(IF CmpMag(CallTimestamp.mag, Threshold1e11) > 0
                               THEN EpochSeconds(CallTimestamp, UnitMS, Threshold1e11)
                               ELSE CallTimestamp)

IsDigitChar(c) == \E d \in 1..10 : DigitChars[d] = c

\* The layout "YYYY-MM-DD HH:MM:SS UTC": 23 characters.
FixedLayout(s) ==
    /\ Len(s) = 23
    /\ \A i \in 1..23 :
          CASE i \in { 5, 8 }   -> s[i] = "-"
            [] i \in { 11, 20 } -> s[i] = " "
            [] i \in { 14, 17 } -> s[i] = ":"
            [] i = 21           -> s[i] = "U"
            [] i = 22           -> s[i] = "T"
            [] i = 23           -> s[i] = "C"
            [] OTHER            -> IsDigitChar(s[i])

\* C12: every datestamp convertEpochToHumanReadable returns as present has
\* the fixed-width layout "YYYY-MM-DD HH:MM:SS UTC" of 23 characters with a
\* four-digit year, whatever the timestamp and the unit.
DatestampLayout ==
    (last.op \in ConvertOps /\ last.present) => FixedLayout(last.out)

\* floor(x / 10^k) on int64.
FloorDivPow10(x, k) ==
    LET n   == Len(x.mag)
        q   == IF n > k THEN SubSeq(x.mag, 1, n - k) ELSE << 0 >>
        rem == StripZeros(IF n > k THEN SubSeq(x.mag, n - k + 1, n) ELSE x.mag)
    IN  IF x.neg /\ rem # << 0 >> THEN I64(TRUE, AddMag(q, << 1 >>))
        ELSE I64(x.neg, q)

\* C19: with the unit milliseconds or microseconds, the datestamp of a
\* timestamp t is the one of the instant exactly t units after
\* 1970-01-01T00:00:00Z, that is of floor(t / 1e3) or floor(t / 1e6) seconds
\* after it: the product of t and the unit's nanoseconds never wraps, so
\* that a larger t never gives an earlier datestamp.
ExplicitUnitExact ==
    (/\ NumericEpochCall
     /\ ToLower(epochUnit) \in MilliUnits \cup MicroUnits)
    => /\ last.present
       /\ last.out = FormatUTC(FloorDivPow10(CallTimestamp,
                                             IF ToLower(epochUnit) \in MilliUnits
                                             THEN 3 ELSE 6))

(***************************************************************************)
(* Properties of a run of main in config-file mode                         *)
(***************************************************************************)

\* The run was given -config and nothing else, and ReadConfig accepts the
\* file.
ConfigFileRun ==
    /\ flags.given
    /\ flags.args.configFile # << >>
    /\ flags.args = [ DefaultFlags EXCEPT !.configFile = flags.args.configFile ]
    /\ sanitizeFilePath(flags.args.configFile).ok
    /\ ReadConfig(flags.os, sanitizeFilePath(flags.args.configFile).path).ok

\* The Config ReadConfig returns to the run.
FileConfig == ReadConfig(flags.os, sanitizeFilePath(flags.args.configFile).path).cfg

\* The config file holds a decodable literal token and its type, and leaves
\* every optional field out.
OnlyTokenInConfig ==
    /\ ConfigFileRun
    /\ FileConfig.TokenType = TypeString
    /\ ParseUnverified(FileConfig.JWTToken).ok
    /\ FileConfig.OutputFormat = << >> /\ FileConfig.OutputFile = << >>
    /\ FileConfig.MaxTokenSizeMB = Int64(0) /\ FileConfig.MaxOutputSizeMB = Int64(0)

\* C13: in config-file mode the fields a config file leaves out take their
\* documented defaults (outputFormat JSON, outputFile claims.json,
\* maxTokenSizeMB 1, maxOutputSizeMB 100): once the arguments of a run whose
\* config file holds only a valid jwtToken and its tokenType are processed,
\* the run's configuration holds these values, and the run ends with the
\* claims written as JSON to claims.json unless the write itself fails.
ConfigDefaults ==
    (OnlyTokenInConfig /\ pc # "parseAndValidateArgs")
    => /\ config.OutputFormat = FormatJSONName
       /\ config.OutputFile = DefaultOutputFile(FormatJSONName)
       /\ config.MaxTokenSize = Int64(1)
       /\ config.MaxOutputSize = Int64(100)
       /\ pc = "exit" => exitErr = "Error writing output to file"
       /\ pc = "done" => /\ Len(written) = 1
                         /\ written[1].filePath = DefaultOutputFile(FormatJSONName)
                         /\ written[1].data = FormatJSON_p2(claims, FALSE, << >>,
                                                            SortedKeys(claims)).out

\* Silent mode is in effect for the run: -silent, or silentExec: true in the
\* config file the run reads.
SilentRun ==
    /\ flags.given
    /\ \/ flags.args.silent
       \/ ConfigFileRun /\ FileConfig.SilentExec

\* The messages that are not error messages.
NonErrorMessages == { "Token from", "Decoding JWT token", "Successfully wrote output" }

\* C14: at no point of a run in silent mode has a non-error message (the
\* "Token from ..." line, "Decoding JWT token", "Successfully wrote output")
\* been printed.
SilentPrintsNothing ==
    SilentRun => \A i \in 1..Len(stdout) : stdout[i].msg \notin NonErrorMessages

(***************************************************************************)
(* config.LoadConfig (src/unnamed/part_001)                                *)
(***************************************************************************)

\* The flags a command line gives with a value other than the one main's
\* flag.Parse leaves for a flag that is not given.
NonDefault(f) ==
    { n \in OtherFlags :
        CASE n = "token-string"    -> f.tokenString # << >>
          [] n = "token-file"      -> f.tokenFile # << >>
          [] n = "token-env"       -> f.tokenEnv
          [] n = "output-format"   -> f.outputFormat # << >>
          [] n = "output-file"     -> f.outputFile # << >>
          [] n = "convert-epoch"   -> f.convertEpoch
          [] n = "epoch-unit"      -> f.epochUnit # << >>
          [] n = "silent"          -> f.silent
          [] n = "max-token-size"  -> f.maxTokenSize # Int64(1)
          [] n = "max-output-size" -> f.maxOutputSize # Int64(100) }

\* The flags other than -config and -version a command line gives.
Supplied(f) == f.explicit \cup NonDefault(f)

\* The flag values as LoadConfig's flag.Parse leaves them: its defaults for
\* -max-token-size and -max-output-size are 0.
LoadConfigFlags(f) ==
    [ f EXCEPT !.maxTokenSize = IF "max-token-size" \in Supplied(f) THEN @ ELSE Int64(0),
               !.maxOutputSize = IF "max-output-size" \in Supplied(f) THEN @ ELSE Int64(0) ]

\* readConfigFile(filePath): the FileConfig json.Unmarshal decodes, as it is.
readConfigFile(os, filePath) ==
    IF filePath \notin DOMAIN os.files THEN [ ok |-> FALSE, cfg |-> ZeroConfig ]
    ELSE IF ~os.files[filePath].json THEN [ ok |-> FALSE, cfg |-> ZeroConfig ]
    ELSE [ ok |-> TRUE, cfg |-> os.files[filePath].config ]

NoSource == [ ok |-> FALSE, type |-> << >>, value |-> << >>, err |-> "none" ]

\* getTokenSource taking the last of the sources the flags give.
getTokenSourceLast(tokenString, tokenFile, tokenEnv, cfg) ==
    IF tokenEnv THEN [ NoSource EXCEPT !.ok = TRUE, !.type = TypeEnvironment ]
    ELSE IF tokenFile # << >>
         THEN [ NoSource EXCEPT !.ok = TRUE, !.type = TypeFile, !.value = tokenFile ]
    ELSE IF tokenString # << >>
         THEN [ NoSource EXCEPT !.ok = TRUE, !.type = TypeString, !.value = tokenString ]
    ELSE IF cfg.TokenType # << >>
         THEN [ NoSource EXCEPT !.ok = TRUE, !.type = cfg.TokenType, !.value = cfg.JWTToken ]
    ELSE [ NoSource EXCEPT !.err = "no token source provided" ]

\* getTokenSource(tokenString, tokenFile, tokenEnv, cfg).
getTokenSource(tokenString, tokenFile, tokenEnv, cfg) ==
    IF tokenString # << >> \/ tokenFile # << >> \/ tokenEnv
    THEN LET sources == (IF tokenString # << >> THEN 1 ELSE 0)
                          + (IF tokenFile # << >> THEN 1 ELSE 0)
                          + (IF tokenEnv THEN 1 ELSE 0)
         IN  IF sources > 1
             THEN [ NoSource EXCEPT
                      !.err = "multiple token sources provided via flags; only one is allowed" ]
             ELSE IF tokenEnv
                  THEN [ NoSource EXCEPT !.ok = TRUE, !.type = TypeEnvironment ]
             ELSE IF tokenFile # << >>
                  THEN [ NoSource EXCEPT !.ok = TRUE, !.type = TypeFile, !.value = tokenFile ]
             ELSE [ NoSource EXCEPT !.ok = TRUE, !.type = TypeString, !.value = tokenString ]
    ELSE IF cfg.TokenType # << >>
         THEN [ NoSource EXCEPT !.ok = TRUE, !.type = cfg.TokenType, !.value = cfg.JWTToken ]
         ELSE [ NoSource EXCEPT !.err = "no token source provided" ]

\* valueOrDefault(a, b): the first non-empty string.
valueOrDefault(a, b) == IF a # << >> THEN a ELSE b

\* intValueOrDefault(val, fileVal, defaultVal).
intValueOrDefault(val, fileVal, defaultVal) ==
    IF val # Int64(0) THEN val ELSE IF fileVal # Int64(0) THEN fileVal ELSE defaultVal


\* LoadConfig after the flags are read and the config file, if any, is
\* loaded: the merge, the token source, the defaults and the final checks.
LoadConfigMerge(f, os, tokenFile, outputFile, fileCfg) ==
    LET merged == [ NoConfig EXCEPT
                      !.ConvertEpoch = f.convertEpoch \/ fileCfg.ConvertEpoch,
                      !.EpochUnit = valueOrDefault(f.epochUnit, << >>),
                      !.IsSilent = f.silent \/ fileCfg.SilentExec,
                      !.MaxTokenSize = intValueOrDefault(f.maxTokenSize,
                                                         fileCfg.MaxTokenSizeMB, Int64(1)),
                      !.MaxOutputSize = intValueOrDefault(f.maxOutputSize,
                                                          fileCfg.MaxOutputSizeMB, Int64(100)),
                      !.OutputFormat = valueOrDefault(ToUpper(f.outputFormat),
                                                      ToUpper(fileCfg.OutputFormat)),
                      !.OutputFile = valueOrDefault(outputFile, fileCfg.OutputFile) ]
        src    == getTokenSource(f.tokenString, tokenFile, f.tokenEnv, fileCfg)
        gt     == GetToken(os, src.type, src.value)
        format == IF merged.OutputFormat = << >> THEN FormatJSONName
                  ELSE merged.OutputFormat
        final  == SanitizeFilePath(IF merged.OutputFile = << >>
                                   THEN DefaultOutputFile(format) ELSE merged.OutputFile)
    IN  IF ~src.ok THEN Failed(src.err, << >>)
        ELSE IF ~gt.ok THEN Failed("token.GetToken failed", << >>)
        ELSE IF format \notin { FormatJSONName, FormatCSVName, FormatXMLName }
             THEN Failed("invalid output format; must be JSON, CSV, or XML", << >>)
        ELSE IF ~final.ok THEN Failed("sanitizing final output file path", << >>)
        ELSE validateToken([ merged EXCEPT !.JWTToken = gt.jwt,
                                           !.OutputFormat = format,
                                           !.OutputFile = final.path ], << >>)

\* LoadConfig(version) for the command line f0 in the environment os.
LoadConfig(f0, os) ==
    LET f          == LoadConfigFlags(f0)
        tokenFile  == SanitizeFilePath(f.tokenFile)
        outputFile == SanitizeFilePath(f.outputFile)
        configFile == SanitizeFilePath(f.configFile)
        rc         == IF configFile.path # << >> THEN readConfigFile(os, configFile.path)
                      ELSE [ ok |-> TRUE, cfg |-> ZeroConfig ]
    IN  IF f.showVersion
        THEN [ ok |-> FALSE, status |-> 0, err |-> "none", out |-> << Line("version") >>,
               cfg |-> NoConfig ]
        ELSE IF ~tokenFile.ok THEN Failed("sanitizing token file path", << >>)
        ELSE IF ~outputFile.ok THEN Failed("sanitizing output file path", << >>)
        ELSE IF ~configFile.ok THEN Failed("sanitizing config file path", << >>)
        ELSE IF /\ configFile.path # << >>
                /\ \/ f.tokenString # << >> \/ f.tokenFile # << >> \/ f.tokenEnv
                   \/ f.outputFormat # << >> \/ f.outputFile # << >>
                   \/ f.convertEpoch \/ f.silent
                   \/ f.maxTokenSize # Int64(0) \/ f.maxOutputSize # Int64(0)
                   \/ f.epochUnit # << >>
             THEN Failed("if -config is used, it must be the sole argument", << >>)
        ELSE IF ~rc.ok THEN Failed("failed to read or parse config file", << >>)
        ELSE LoadConfigMerge(f, os, tokenFile.path, outputFile.path, rc.cfg)

(***************************************************************************)
(* Argument processing on its own: main's parseAndValidateArgs and         *)
(* config.LoadConfig on the same command lines                             *)
(***************************************************************************)

InitArgs ==
    /\ pc = "flag.Parse"
    /\ flags \in { [ given |-> TRUE, args |-> a, os |-> o ]
                     : a \in CommandLines, o \in Environments }
    /\ config = NoConfig
    /\ stdout = << >>
    /\ exitErr = "none"
    /\ outputData = << >>
    /\ written = << >>
    /\ claims = EmptyMap
    /\ convertEpoch = FALSE
    /\ epochUnit = << >>
    /\ processed = NotProcessed
    /\ last = NoCall

\* How a call of the argument processing ends: it returns the AppConfig to
\* main, ends the program by os.Exit(0) for -version, or fails with an error.
Outcome(r) ==
    IF r.ok THEN "returned" ELSE IF r.status = 0 THEN "os.Exit(0)" ELSE "failed"

\* The state after the call of fn gave r.
Returned(fn, r) ==
    /\ pc' = Outcome(r)
    /\ last' = [ NoCall EXCEPT !.op = fn ]
    /\ config' = r.cfg
    /\ exitErr' = r.err
    /\ stdout' = stdout \o r.out
    /\ UNCHANGED << flags, outputData, written, claims >>
    /\ UNCHANGED << convertEpoch, epochUnit, processed >>

CallParseAndValidateArgs ==
    /\ pc = "flag.Parse"
    /\ \E r \in { parseAndValidateArgs(flags.args, flags.os) } :
          Returned("parseAndValidateArgs", r)

CallLoadConfig ==
    /\ pc = "flag.Parse"
    /\ \E r \in { LoadConfig(flags.args, flags.os) } : Returned("LoadConfig", r)

NextArgs ==
    \/ CallParseAndValidateArgs
    \/ CallLoadConfig

SpecArgs == InitArgs /\ [][NextArgs]_vars

(***************************************************************************)
(* Properties of argument processing                                       *)
(***************************************************************************)

ArgsOps == { "parseAndValidateArgs", "LoadConfig" }

\* The call of parseAndValidateArgs or LoadConfig is over.
ArgsProcessed == last.op \in ArgsOps

SanitizingErrors ==
    { "sanitizing config file path", "sanitizing output file path",
      "sanitizing token file path" }

SoleArgumentErrors ==
    { "config file specified, but other arguments are present",
      "if -config is used, it must be the sole argument" }

MultipleSourcesErrors ==
    { "multiple token sources provided; only one is allowed",
      "multiple token sources provided via flags; only one is allowed" }

NoSourceError == "no token source provided"

\* The errors returned before the config file is read.
ErrorsBeforeReadConfig == SanitizingErrors \cup SoleArgumentErrors

\* The errors returned before token.GetToken is called.
ErrorsBeforeGetToken ==
    ErrorsBeforeReadConfig
      \cup { "reading config file", "failed to read or parse config file" }
      \cup MultipleSourcesErrors \cup { NoSourceError }

\* token.GetToken was called: the call returned, or failed with an error of
\* GetToken or of a later check.
GetTokenCalled ==
    \/ pc = "returned"
    \/ pc = "failed" /\ exitErr \notin ErrorsBeforeGetToken

\* C15: when -config is given together with any other flag (whatever the
\* flag's value, its default value included), parseAndValidateArgs and
\* LoadConfig fail with an error returned before the config file is read
\* and before a token is acquired.
ConfigMustBeSole ==
    (/\ ArgsProcessed
     /\ ~flags.args.showVersion
     /\ flags.args.configFile # << >>
     /\ Supplied(flags.args) # {})
    => pc = "failed" /\ exitErr \in ErrorsBeforeReadConfig

TokenFlags == { "token-string", "token-file", "token-env" }

\* The run has no -config.
FlagMode == flags.args.configFile = << >>

TokenSourcesNamed ==
    (IF flags.args.tokenString # << >> THEN 1 ELSE 0)
      + (IF flags.args.tokenFile # << >> THEN 1 ELSE 0)
      + (IF flags.args.tokenEnv THEN 1 ELSE 0)

\* -version is not given and the three path flags pass sanitization.
SourcesExamined ==
    /\ ~flags.args.showVersion
    /\ sanitizeFilePath(flags.args.configFile).ok
    /\ sanitizeFilePath(flags.args.outputFile).ok
    /\ sanitizeFilePath(flags.args.tokenFile).ok

OneSourceWitness ==
    /\ last.op = "parseAndValidateArgs" /\ FlagMode /\ SourcesExamined
    /\ TokenSourcesNamed = 1 /\ flags.args.tokenFile # << >>
    /\ pc = "returned" /\ config.JWTToken = Token(3)

\* The run was given -config alone, and the file decodes to a Config.
SoleConfigDecoded ==
    /\ flags.args = [ DefaultFlags EXCEPT !.configFile = flags.args.configFile ]
    /\ flags.args.configFile # << >>
    /\ sanitizeFilePath(flags.args.configFile).ok
    /\ sanitizeFilePath(flags.args.configFile).path \in DOMAIN flags.os.files
    /\ flags.os.files[sanitizeFilePath(flags.args.configFile).path].json

\* The Config the file decodes to.
DecodedConfig == flags.os.files[sanitizeFilePath(flags.args.configFile).path].config

\* C17: in config-file mode, with either loader, a config file with a
\* non-empty jwtToken and no tokenType is treated as tokenType "string" (the
\* jwtToken is taken as the literal token), and one with an empty jwtToken
\* and no tokenType is rejected.
TokenTypeDefaultsToString ==
    (ArgsProcessed /\ SoleConfigDecoded /\ DecodedConfig.TokenType = << >>)
    => IF DecodedConfig.JWTToken # << >>
       THEN /\ GetTokenCalled
            /\ pc = "returned" => config.JWTToken = DecodedConfig.JWTToken
       ELSE pc = "failed"

(***************************************************************************)
(* Properties of the CSV columns                                           *)
(***************************************************************************)

\* The companion keys a CSV renderer adds to the claims it is given: the
\* three-argument FormatCSV adds one for every epoch claim holding a number
\* when conversion is on; FormatCSV(claims) adds none (PreprocessClaims has
\* put them among the claims it is given).
CompanionKeys ==
    IF last.op = "FormatCSV_p2" /\ convertEpoch
    THEN { k \o DatestampSuffix :
             k \in { x \in DOMAIN last.input :
                       x \in EpochKeys /\ NumericallyInterpretable(last.input[x]) } }
    ELSE {}

\* What flattening makes of a top-level value: the compact JSON text of a
\* map or a slice, the value itself otherwise.
Flat(value) ==
    IF value.t \in { "map", "slice" } THEN VString(jsonMarshal(value)) ELSE value

\* C18: the columns of FormatCSV are exactly the top-level claim keys and
\* the companion <key>_datestamp keys, one column each and none with a
\* dotted or prefixed name; the cell of a top-level claim is read from the
\* compact JSON text of its value when that is a map or a slice and from the
\* value itself, unchanged, when it is a scalar.
ColumnsAreTopLevelKeys ==
    last.op \in CSVOps =>
        /\ { last.headers[i] : i \in 1..Len(last.headers) }
              = DOMAIN last.input \cup CompanionKeys
        /\ Len(last.headers) = Cardinality(DOMAIN last.input \cup CompanionKeys)
        /\ \A i \in 1..Len(last.headers) :
              last.headers[i] \in DOMAIN last.input
                 => last.cells[i] = Flat(last.input[last.headers[i]])

\* A cell's content begins with =, +, - or @.
BeginsLikeFormula(cell) == Len(cell) > 0 /\ cell[1] \in FormulaPrefixes

\* C20: no cell FormatCSV hands to the CSV writer, in the header row or in
\* the data row, begins with =, +, - or @: a key beginning with one of them
\* is written with a single quote before it, as a data value is.
NoFormulaCells ==
    last.op \in CSVOps =>
        /\ \A i \in 1..Len(last.headers) : ~BeginsLikeFormula(last.headers[i])
        /\ \A i \in 1..Len(last.row) : ~BeginsLikeFormula(last.row[i])

(***************************************************************************)
(* Path sanitization on its own: the three copies of the function on the   *)
(* same paths                                                              *)
(***************************************************************************)

\* The most elements a path given to the sanitizer has.
MaxParts == 3

\* The elements the paths are made of.
PathParts ==
    { << "d", "e", "v" >>, << "p", "r", "o", "c" >>, << "s", "y", "s" >>,
      << "n", "u", "l", "l" >>, << "c", "o", "n" >>, << "N", "U", "L" >>,
      << "C", "o", "m", "1" >>, << "l", "p", "t", "9" >>, << "a" >>,
      DotDot, << "." >>, << "\\", "x" >> }

\* The paths: up to MaxParts elements joined by "/", rooted or not; the one
\* with no element and no root is the empty path.
Paths ==
    { (IF rooted THEN << "/" >> ELSE << >>) \o Join(parts, << "/" >>)
        : rooted \in BOOLEAN,
          parts \in UNION { [ 1..n -> PathParts ] : n \in 0..MaxParts } }

\* The path is the value of -token-file; nothing of main has run.
InitPath ==
    /\ pc = "idle"
    /\ flags \in { [ given |-> TRUE, args |-> [ DefaultFlags EXCEPT !.tokenFile = p ],
                     os |-> o ]
                     : p \in Paths, o \in { CHOOSE e \in Environments : TRUE } }
    /\ config = [ set |-> FALSE ]
    /\ stdout = << >>
    /\ exitErr = "none"
    /\ outputData = << >>
    /\ written = << >>
    /\ claims = EmptyMap
    /\ convertEpoch = FALSE
    /\ epochUnit = << >>
    /\ processed = NotProcessed
    /\ last = NoCall

\* A copy of the sanitizer has returned r: the path in last.out, the error
\* in exitErr.
Sanitized(fn, r) ==
    /\ last' = [ NoCall EXCEPT !.op = fn, !.out = r.path ]
    /\ exitErr' = IF r.ok THEN "none"
                  ELSE "path refers to a disallowed special device file"
    /\ UNCHANGED << claims, convertEpoch, epochUnit, processed >>
    /\ UNCHANGED << pc, flags, config, stdout, outputData, written >>

\* main.go: sanitizeFilePath(tokenFile).
CallSanitizeMain ==
    \E r \in { sanitizeFilePath(flags.args.tokenFile) } :
        Sanitized("main.sanitizeFilePath", r)

\* token.go: sanitizeFilePath(tokenSourceValue).
CallSanitizeToken ==
    \E r \in { sanitizeFilePath(flags.args.tokenFile) } :
        Sanitized("token.sanitizeFilePath", r)

\* utils.go: SanitizeFilePath(*tokenFile).
CallSanitizeUtils ==
    \E r \in { SanitizeFilePath(flags.args.tokenFile) } :
        Sanitized("utils.SanitizeFilePath", r)

NextPath ==
    \/ CallSanitizeMain
    \/ CallSanitizeToken
    \/ CallSanitizeUtils

SpecPath == InitPath /\ [][NextPath]_vars

(***************************************************************************)
(* Properties of the path sanitization                                     *)
(***************************************************************************)

SanitizeOps ==
    { "main.sanitizeFilePath", "token.sanitizeFilePath", "utils.SanitizeFilePath" }

\* The path the sanitizer was called on.
SanitizedInput == flags.args.tokenFile

DeviceDirs ==
    { << "/", "d", "e", "v", "/" >>, << "/", "p", "r", "o", "c", "/" >>,
      << "/", "s", "y", "s", "/" >> }

ReservedNames ==
    { << "n", "u", "l" >>, << "c", "o", "n" >>, << "p", "r", "n" >>,
      << "a", "u", "x" >> }
      \cup { << "c", "o", "m", d >> : d \in DigitsOneToNine }
      \cup { << "l", "p", "t", d >> : d \in DigitsOneToNine }

\* The path lies under /dev/, /proc/ or /sys/.
UnderDeviceDir(path) ==
    \E d \in DeviceDirs : HasPrefix(path, d) /\ Len(path) > Len(d)

\* The first element of the path is a reserved name, in any case.
FirstIsReserved(path) == ToLower(Split(path, "/")[1]) \in ReservedNames

\* A call of a sanitizer has returned an error and no path.
Refused == exitErr # "none" /\ last.out = << >>

\* C21: every copy of the sanitizer returns an error and no path for a
\* path that, once cleaned, lies under /dev/, /proc/ or /sys/ or has a
\* Windows reserved name (nul, con, prn, aux, com1-9, lpt1-9, in any case)
\* as its first element; for the empty path it returns the empty path and
\* no error.
SpecialDevicesRefused ==
    last.op \in SanitizeOps =>
        /\ SanitizedInput = << >> => exitErr = "none" /\ last.out = << >>
        /\ ( /\ SanitizedInput # << >>
             /\ \/ UnderDeviceDir(Clean(SanitizedInput))
                \/ FirstIsReserved(Clean(SanitizedInput)) ) => Refused

=============================================================================
